---- MODULE Spec2Model ----
(***************************************************************************)
(* Disk-backed GROUP BY of chess positions (src/src/fen.js and              *)
(* src/src/lib/merge-worker.js): chunk writer, chunk sorter, the K-way      *)
(* merge worker, the phase reducer, the final merge / partitioner and the   *)
(* output assembler.                                                        *)
(*                                                                          *)
(* Text is modelled at token granularity.  A line is a sequence of tokens;  *)
(* a token is a FEN string, a result string, a decimal numeral, the text    *)
(* "undefined", or one of the separators '|' and TAB.  Formatting builds    *)
(* token sequences, parsing is index arithmetic on them, as in the source.  *)
(* Positions in a line are 1-based; 0 stands for JavaScript's -1.           *)
(* The FEN strings are those of FenOrder, listed in the order that          *)
(* String.prototype.localeCompare gives them.                               *)
(***************************************************************************)
EXTENDS Integers, Sequences, FiniteSets, TLC

VARIABLES
  \* one merge task in its worker thread (merge-worker.js)
  inputFiles, mw,
  \* multiPhaseKWayMerge with the merge worker pool, and kWayMergeFinal (fen.js)
  mp, fm,
  \* the chunk writer, one processSingleChunk, the output assembly (fen.js)
  writer, sorter, assembly,
  \* one extraction worker thread (fen-worker.js)
  fw,
  \* processPgnFileMultithread with its workers and its read stream (fen.js)
  ex,
  \* run() with the temp directory (fen.js)
  run,
  \* normalizeFen applied to the FENs of two positions (fen-worker.js)
  nf,
  \* the write streams of the chunk files, from extraction to chunk sort (fen.js)
  cs,
  \* processAllChunks with the chunk files and the sorted files on disk (fen.js)
  sa,
  \* one line reader of a merge with its read stream (merge-worker.js, fen.js)
  lr

mergeVars == <<inputFiles, mw>>
pipelineVars == <<mp, fm>>
auxVars == <<sa, lr>>
unitVars == <<nf, cs, auxVars>>
stageVars == <<fw, ex, run, unitVars>>
vars == <<inputFiles, mw, mp, fm, writer, sorter, assembly, stageVars>>

\* ------------------------------------------------------------------ bounds
\* total number of lines over the input files of one merge task
MaxRecords == 3
\* total number of lines over the sorted chunks of one pipeline run
MaxPipelineRecords == 5
\* positions in one worker message, positions of one extraction
MaxBatch == 3
MaxWritten == 5
\* lines of a chunk file under sort, blank lines included
MaxChunkLines == 3
\* greatest occurrence in the partition files under assembly
MaxOccurrence == 11
\* positions per chunk (this.chunkSize, 3000000 in the source, scaled down)
chunkSize == 2
\* chunks per merge task (this.chunksPerMerge, 6 in the source, scaled down)
chunksPerMerge == 2

\* games in one worker batch (this.batchSize, 16 in the source, scaled down) and
\* moves of one game
MaxGames == 2
MaxPlies == 2

\* extraction workers (this.numWorkers, os.cpus().length in the source), games
\* per batch (this.batchSize of fen.js, 16 in the source, scaled down; batchSize
\* names a parameter of the merge worker here), games of the input file
numWorkers == 2
fenBatchSize == 1
MaxFileGames == 12

\* positions of the input file of one run
MaxRunPositions == 4

\* greatest halfmove clock and fullmove number of the FENs under normalization
MaxClock == 1
MaxMove == 2


\* positions written through the chunk write streams, positions of one message
MaxStreamPositions == 3
MaxStreamBatch == 2


\* sorted chunks of the runs of the phase reducer that differ in their number only
MaxChunks == 9


\* sorted chunks of the runs in which the merge task and the final merge are
\* both followed line by line
MaxLoopChunks == 4


\* chunk files of a processAllChunks call
MaxSortChunks == 3


\* characters of a file read by a line reader
MaxFileChars == 5
\* lines of the first batch of a merge-worker reader (100 in the source, scaled
\* down), of a reload (50, scaled down), queue length under which a reader is
\* reloaded (10, scaled down)
FirstBatchLines == 2
ReloadBatchLines == 2
ReloadBelow == 1


\* ------------------------------------------------------------------ tokens
Fen(f) == [t |-> "fen", n |-> 0, s |-> f]
Num(n) == [t |-> "num", n |-> n, s |-> ""]
Res(r) == [t |-> "res", n |-> 0, s |-> r]
Txt(x) == [t |-> "txt", n |-> 0, s |-> x]
Pipe == [t |-> "sep", n |-> 0, s |-> "|"]
Tab == [t |-> "sep", n |-> 0, s |-> "\t"]

\* the FEN strings of the model, ascending by localeCompare
FenOrder == <<"c4fen", "d4fen", "e4fen">>
Keys == {FenOrder[i] : i \in DOMAIN FenOrder}
\* the FEN strings of the chunk lines
MergeKeys == {"d4fen", "e4fen"}
Results == {"1-0", "0-1", "1/2-1/2"}

NULL == [t |-> "null", n |-> 0, s |-> ""]

Min(a, b) == IF a <= b THEN a ELSE b
Max(a, b) == IF a >= b THEN a ELSE b

\* String.prototype.indexOf(sep, from): first position >= from holding sep, 0 if none
IndexOf(line, sep, from) ==
  LET hits == {i \in Max(from, 1)..Len(line) : line[i] = sep}
  IN IF hits = {} THEN 0 ELSE CHOOSE i \in hits : \A j \in hits : i <= j

\* String.prototype.substring on 1-based inclusive positions
Substring(line, from, to) == SubSeq(line, Max(from, 1), Min(to, Len(line)))

\* String.prototype.split(sep): the fields between the separators
RECURSIVE Split(_, _)
Split(line, sep) ==
  LET i == IndexOf(line, sep, 1)
  IN IF i = 0 THEN <<line>>
     ELSE <<SubSeq(line, 1, i - 1)>> \o Split(SubSeq(line, i + 1, Len(line)), sep)

\* parseInt(text) || 0: a numeral gives its value, "1-0" and "1/2-1/2" start
\* with the digit 1 and "0-1" with the digit 0, any other text gives NaN, so 0
ParseIntOr0(text) ==
  IF text = <<>> THEN 0
  ELSE LET h == text[1]
       IN IF h.t = "num" THEN h.n
          ELSE IF h.t = "res" THEN (IF h.s \in {"1-0", "1/2-1/2"} THEN 1 ELSE 0)
          ELSE 0

\* a.localeCompare(b) on FEN strings: negative, zero or positive
FenRank(f) == CHOOSE i \in DOMAIN FenOrder : FenOrder[i] = f
\* variant of Rank that orders the FEN strings the other way round
RankDescending(text) ==
  IF Len(text) = 1 /\ text[1].t = "fen" THEN 0 - FenRank(text[1].s) ELSE 0
Rank(text) == IF Len(text) = 1 /\ text[1].t = "fen" THEN FenRank(text[1].s) ELSE 0

\* Array.prototype.sort(cmp) is stable.  ranks[i] is the sort key of element i
\* (cmp(a, b) = rank(a) - rank(b)); the result lists the element indices in
\* sorted order, equal ranks in their original order
\* variant of SortBefore that puts the later of two elements of equal rank first
SortBeforeUnstable(ranks, a, b) == ranks[a] < ranks[b] \/ (ranks[a] = ranks[b] /\ a > b)
SortBefore(ranks, a, b) == ranks[a] < ranks[b] \/ (ranks[a] = ranks[b] /\ a < b)
StableOrder(ranks) ==
  [i \in 1..Len(ranks) |->
     CHOOSE a \in 1..Len(ranks) :
       Cardinality({b \in 1..Len(ranks) : SortBefore(ranks, b, a)}) = i - 1]
StableSort(seq, ranks) ==
  LET order == StableOrder(ranks) IN [i \in 1..Len(seq) |-> seq[order[i]]]

\* ------------------------------------------------------------ file formats
\* fen.js writePositionsToChunk: `${position.fen}|${position.result}\n`
ChunkLine(fen, result) == <<Fen(fen), Pipe, Res(result)>>

ZeroStats == [occurrence |-> 0, white |-> 0, black |-> 0, draw |-> 0]

\* -------------------------------------------------- merge worker: readers
\* A reader delivers the lines of its file in file order.  rest holds the lines
\* not yet moved to lineQueue (still in the stream or in reader.buffer).
NewReader(file) ==
  [rest |-> file, lineQueue |-> <<>>, streamEnded |-> FALSE, finished |-> FALSE]

\* The ways one call of readNextLineBatch can end: the number of complete lines
\* that the data read during the call brings.  With an empty queue the call
\* resolves only once a line was queued or the stream has ended.
ReadOutcomes(r) ==
  IF r.finished \/ r.rest = <<>> THEN {0}
  ELSE (IF r.lineQueue = <<>> THEN 1 ELSE 0)..Len(r.rest)

ReadNextLineBatch(r, batchSize, j) ==
  IF r.finished THEN r
  ELSE IF r.rest = <<>>
    THEN [r EXCEPT !.streamEnded = TRUE, !.finished = (r.lineQueue = <<>>)]
  ELSE LET targetLines == Max(1, batchSize - Len(r.lineQueue))
           n == Min(j, targetLines)
       IN [r EXCEPT !.lineQueue = @ \o SubSeq(r.rest, 1, n),
                    !.rest = SubSeq(r.rest, n + 1, Len(r.rest))]

\* ---------------------------------------------- merge worker: one iteration
InitialBatchSize == 100
ReloadBatchSize == 50
ReloadThreshold == 10

\* the head line of a reader, decoded as the loop at lines 266-286 does
ParsePosition(line, isFirstPhase) ==
  IF isFirstPhase
  THEN LET firstPipe == IndexOf(line, Pipe, 1)
           secondPipe == IndexOf(line, Pipe, firstPipe + 1)
       IN [ok |-> firstPipe # 0,
           hash |-> Substring(line, 1, firstPipe - 1),
           fen |-> Substring(line, firstPipe + 1,
                             IF secondPipe # 0 THEN secondPipe - 1 ELSE Len(line)),
           secondPipe |-> secondPipe,
           separatorIndex |-> 0]
  ELSE LET separatorIndex == IndexOf(line, Tab, 1)
       IN [ok |-> separatorIndex # 0,
           hash |-> Substring(line, 1, separatorIndex - 1),
           fen |-> <<Txt("undefined")>>,
           secondPipe |-> 0,
           separatorIndex |-> separatorIndex]

\* the positions of the first five TABs from separatorIndex on (lines 327-331)
TabPositions(line, separatorIndex) ==
  LET all == SelectSeq([i \in 1..Len(line) |-> i],
                       LAMBDA i : i >= separatorIndex /\ line[i] = Tab)
  IN SubSeq(all, 1, Min(5, Len(all)))

\* line.substring(tabs[a] + 1, tabs[b]) with tabs 0-based in the source; an
\* undefined tabs[a] makes the start 0, an undefined tabs[b] the end of line
BetweenTabs(line, tabs, a, b) ==
  LET from == IF a + 1 <= Len(tabs) THEN tabs[a + 1] + 1 ELSE 1
      to == IF b + 1 <= Len(tabs) THEN tabs[b + 1] - 1 ELSE Len(line)
  IN Substring(line, from, to)

\* variant of LineStats that decodes a later-phase line as FEN, occurrence,
\* white, black, draw
LineStatsFiveFieldLayout(line, pos, isFirstPhase) ==
  IF isFirstPhase
  THEN [occurrence |-> 1, white |-> 0, black |-> 0, draw |-> 0]
  ELSE LET tabs == TabPositions(line, pos.separatorIndex)
       IN [occurrence |-> ParseIntOr0(BetweenTabs(line, tabs, 0, 1)),
           white |-> ParseIntOr0(BetweenTabs(line, tabs, 1, 2)),
           black |-> ParseIntOr0(BetweenTabs(line, tabs, 2, 3)),
           draw |-> ParseIntOr0(BetweenTabs(line, tabs, 3, 4))]

\* what one consumed line adds to currentStats (lines 317-337)
LineStats(line, pos, isFirstPhase) ==
  IF isFirstPhase
  THEN LET result == Substring(line, pos.secondPipe + 1, Len(line))
       IN [occurrence |-> 1,
           white |-> IF result = <<Res("1-0")>> THEN 1 ELSE 0,
           black |-> IF result = <<Res("0-1")>> THEN 1 ELSE 0,
           draw |-> IF result = <<Res("1/2-1/2")>> THEN 1 ELSE 0]
  ELSE LET tabs == TabPositions(line, pos.separatorIndex)
       IN [occurrence |-> ParseIntOr0(BetweenTabs(line, tabs, 1, 2)),
           white |-> ParseIntOr0(BetweenTabs(line, tabs, 2, 3)),
           black |-> ParseIntOr0(BetweenTabs(line, tabs, 3, 4)),
           draw |-> ParseIntOr0(BetweenTabs(line, tabs, 4, 5))]

AddStats(a, b) ==
  [occurrence |-> a.occurrence + b.occurrence, white |-> a.white + b.white,
   black |-> a.black + b.black, draw |-> a.draw + b.draw]

RECURSIVE SumStats(_)
SumStats(seq) ==
  IF seq = <<>> THEN ZeroStats ELSE AddStats(seq[1], SumStats(Tail(seq)))

\* the line written for a finished key (lines 296 and 347)
WorkerOutputLine(currentFen, stats) ==
  currentFen.hash \o <<Tab>> \o currentFen.fen
    \o <<Tab, Num(stats.occurrence), Tab, Num(stats.white),
         Tab, Num(stats.black), Tab, Num(stats.draw)>>

NewMergeWorker(files, isFirstPhase) ==
  [pc |-> "init", isFirstPhase |-> isFirstPhase,
   readers |-> [i \in 1..Len(files) |-> NewReader(files[i])],
   currentFen |-> NULL, currentStats |-> ZeroStats,
   out |-> <<>>, positionsWritten |-> 0]

\* line 250: the first readNextLineBatch of every reader; js[i] is reader i's outcome
InitialRead(w, js) ==
  [w EXCEPT !.pc = "loop",
            !.readers = [i \in DOMAIN w.readers |->
                           ReadNextLineBatch(w.readers[i], InitialBatchSize, js[i])]]

\* lines 258-343: one pass of the while loop; js[i] is the outcome of reader i's reload
MergeIteration(w, js) ==
  IF \A i \in DOMAIN w.readers : w.readers[i].finished
  THEN [w EXCEPT !.pc = "last"]
  ELSE
    LET loaded == [i \in DOMAIN w.readers |->
                     IF ~w.readers[i].finished
                        /\ Len(w.readers[i].lineQueue) < ReloadThreshold
                     THEN ReadNextLineBatch(w.readers[i], ReloadBatchSize, js[i])
                     ELSE w.readers[i]]
        parsed == [i \in DOMAIN loaded |->
                     IF ~loaded[i].finished /\ loaded[i].lineQueue # <<>>
                     THEN ParsePosition(loaded[i].lineQueue[1], w.isFirstPhase)
                     ELSE [ok |-> FALSE, hash |-> <<>>, fen |-> <<>>,
                           secondPipe |-> 0, separatorIndex |-> 0]]
        unsorted == SelectSeq([i \in 1..Len(loaded) |-> i], LAMBDA i : parsed[i].ok)
        currentPositions ==
          StableSort(unsorted, [n \in 1..Len(unsorted) |-> Rank(parsed[unsorted[n]].hash)])
    IN IF currentPositions = <<>>
       THEN [w EXCEPT !.pc = "last", !.readers = loaded]
       ELSE
         LET minHash == parsed[currentPositions[1]].hash
             minFen == parsed[currentPositions[1]].fen
             flush == w.currentFen # NULL /\ w.currentFen.hash # minHash
             \* the loop over currentPositions breaks at the first other hash
             taken == {n \in 1..Len(currentPositions) :
                         \A m \in 1..n : parsed[currentPositions[m]].hash = minHash}
             minReaders == {currentPositions[n] : n \in taken}
             added == SumStats([n \in 1..Cardinality(taken) |->
                         LineStats(loaded[currentPositions[n]].lineQueue[1],
                                   parsed[currentPositions[n]], w.isFirstPhase)])
         IN [w EXCEPT
              !.out = IF flush THEN Append(@, WorkerOutputLine(w.currentFen, w.currentStats))
                      ELSE @,
              !.positionsWritten = IF flush THEN @ + 1 ELSE @,
              !.currentFen = [hash |-> minHash, fen |-> minFen],
              !.currentStats = AddStats(IF flush THEN ZeroStats ELSE @, added),
              !.readers = [i \in DOMAIN loaded |->
                 IF i \in minReaders
                 THEN [loaded[i] EXCEPT
                        !.lineQueue = Tail(@),
                        !.finished = (Len(loaded[i].lineQueue) = 1 /\ loaded[i].streamEnded)]
                 ELSE loaded[i]]]

\* lines 345-372: the last position, then end of the output stream
WriteLast(w) ==
  [w EXCEPT !.pc = "done",
            !.out = IF w.currentFen # NULL
                    THEN Append(@, WorkerOutputLine(w.currentFen, w.currentStats)) ELSE @,
            !.positionsWritten = IF w.currentFen # NULL THEN @ + 1 ELSE @]

\* a whole task as the worker thread runs it, every read bringing all the
\* remaining lines of its file
AllAvailable(w) == [i \in DOMAIN w.readers |-> Len(w.readers[i].rest)]

RECURSIVE RunMergeWorker(_)
RunMergeWorker(w) ==
  IF w.pc = "done" THEN w
  ELSE IF w.pc = "init" THEN RunMergeWorker(InitialRead(w, AllAvailable(w)))
  ELSE IF w.pc = "loop" THEN RunMergeWorker(MergeIteration(w, AllAvailable(w)))
  ELSE RunMergeWorker(WriteLast(w))

KWayMergeToSingleFile(files, isFirstPhase) ==
  RunMergeWorker(NewMergeWorker(files, isFirstPhase)).out

\* ------------------------------------------------------------ sorted chunks
\* ascending list of the members of a set of numbers
RECURSIVE Ascending(_)
Ascending(S) ==
  IF S = {} THEN <<>>
  ELSE LET m == CHOOSE x \in S : \A y \in S : x <= y
       IN <<m>> \o Ascending(S \ {m})

\* lines cut into consecutive files after the positions in cuts
CutIntoFiles(lines, cuts) ==
  LET ends == Ascending(cuts \cup {Len(lines)})
  IN [c \in 1..Len(ends) |->
        SubSeq(lines, (IF c = 1 THEN 0 ELSE ends[c - 1]) + 1, ends[c])]

\* a file processSingleChunk can write: at most chunkSize chunk lines in
\* non-decreasing order of FEN
IsSortedChunk(c) ==
  /\ Len(c) <= chunkSize
  /\ \A i \in 1..(Len(c) - 1) : FenRank(c[i][1].s) <= FenRank(c[i + 1][1].s)

\* the batches of one phase (fen.js lines 622-634): consecutive slices of
\* chunksPerMerge files
NumBatches(files) == (Len(files) + chunksPerMerge - 1) \div chunksPerMerge
\* variant of Batch whose slices start one file early
BatchFromPrevious(files, b) ==
  SubSeq(files, Max((b - 1) * chunksPerMerge, 1), Min(b * chunksPerMerge, Len(files)))
Batch(files, b) ==
  SubSeq(files, (b - 1) * chunksPerMerge + 1, Min(b * chunksPerMerge, Len(files)))

\* ------------------------------------------------ final merge (kWayMergeFinal)
\* bucket 1..9 is the partition file `${i}occ.tmp`, bucket TenPlus is 10plusocc.tmp
TenPlus == 10
Buckets == 1..TenPlus

\* currentFen = null
NoFen == <<NULL>>

\* fen.js readers of kWayMergeFinal; an empty currentLine stands for null
NewFinalReader(file) ==
  [rest |-> file, currentLine |-> <<>>, finished |-> FALSE, streamEnded |-> FALSE]

\* fen.js readNextLine: the next line of the file, or end of file
ReadNextLine(r) ==
  IF r.finished THEN r
  ELSE IF r.rest # <<>>
    THEN [r EXCEPT !.currentLine = Head(r.rest), !.rest = Tail(r.rest)]
  ELSE [r EXCEPT !.currentLine = <<>>, !.streamEnded = TRUE, !.finished = TRUE]

\* `${currentFen}\t${occurrence}\t${white}\t${black}\t${draw}` (lines 767 and 799)
FinalLine(currentFen, stats) ==
  currentFen \o <<Tab, Num(stats.occurrence), Tab, Num(stats.white),
                  Tab, Num(stats.black), Tab, Num(stats.draw)>>

\* the stream a completed record is written to (lines 769-773): partitionStreams
\* has the keys 1..9 and '10plus', any other key gives undefined
PartitionKey(occurrence) == IF occurrence >= TenPlus THEN TenPlus ELSE occurrence
HasPartitionStream(occurrence) == PartitionKey(occurrence) \in Buckets

\* lines 786-789: what one consumed line adds to currentStats
FinalLineStats(parts) ==
  [occurrence |-> IF Len(parts) >= 2 THEN ParseIntOr0(parts[2]) ELSE 0,
   white |-> IF Len(parts) >= 3 THEN ParseIntOr0(parts[3]) ELSE 0,
   black |-> IF Len(parts) >= 4 THEN ParseIntOr0(parts[4]) ELSE 0,
   draw |-> IF Len(parts) >= 5 THEN ParseIntOr0(parts[5]) ELSE 0]

\* lines 704-731: the partition streams, the readers and their first line
NewFinalMerge(files) ==
  [pc |-> "loop",
   readers |-> [i \in 1..Len(files) |-> ReadNextLine(NewFinalReader(files[i]))],
   currentFen |-> NoFen, currentStats |-> ZeroStats,
   partitions |-> [b \in Buckets |-> <<>>],
   positionsWritten |-> 0, totalLinesProcessed |-> 0]

\* a record is written to its partition stream; writing to a stream that does
\* not exist throws (TypeError), which ends kWayMergeFinal
WriteToPartition(f) ==
  IF HasPartitionStream(f.currentStats.occurrence)
  THEN [f EXCEPT !.partitions[PartitionKey(f.currentStats.occurrence)] =
                    Append(@, FinalLine(f.currentFen, f.currentStats)),
                 !.positionsWritten = @ + 1]
  ELSE [f EXCEPT !.pc = "failed"]

\* variant of MinReaders that takes the first reader of the minimal FEN only
MinReadersFirstOnly(currentPositions, parts, minFen) == <<currentPositions[1]>>
\* line 764: currentPositions.filter(pos => pos.fen === minFen).map(pos => pos.reader)
MinReaders(currentPositions, parts, minFen) ==
  SelectSeq(currentPositions, LAMBDA i : parts[i][1] = minFen)

\* lines 739-795: one pass of the while loop
FinalIteration(f) ==
  IF \A i \in DOMAIN f.readers : f.readers[i].finished
  THEN [f EXCEPT !.pc = "last"]
  ELSE
    LET parts == [i \in DOMAIN f.readers |-> Split(f.readers[i].currentLine, Tab)]
        unsorted == SelectSeq([i \in 1..Len(f.readers) |-> i],
                      LAMBDA i : /\ ~f.readers[i].finished
                                 /\ f.readers[i].currentLine # <<>>
                                 /\ Len(parts[i]) >= 5)
        currentPositions ==
          StableSort(unsorted, [n \in 1..Len(unsorted) |-> Rank(parts[unsorted[n]][1])])
    IN IF currentPositions = <<>>
       THEN [f EXCEPT !.pc = "last"]
       ELSE
         LET minFen == parts[currentPositions[1]][1]
             minReaders == MinReaders(currentPositions, parts, minFen)
             flush == f.currentFen # NoFen /\ f.currentFen # minFen
             flushed == IF flush THEN WriteToPartition(f) ELSE f
             added == SumStats([n \in 1..Len(minReaders) |->
                                  FinalLineStats(parts[minReaders[n]])])
             inMin == {minReaders[n] : n \in 1..Len(minReaders)}
         IN IF flushed.pc = "failed" THEN flushed
            ELSE [flushed EXCEPT
                   !.currentFen = minFen,
                   !.currentStats = AddStats(IF flush THEN ZeroStats ELSE @, added),
                   !.totalLinesProcessed = @ + Len(minReaders),
                   !.readers = [i \in DOMAIN f.readers |->
                      IF i \in inMin THEN ReadNextLine(f.readers[i]) ELSE f.readers[i]]]

\* lines 798-820: the last record, then the streams are closed
FinalWriteLast(f) ==
  LET written == IF f.currentFen # NoFen THEN WriteToPartition(f) ELSE f
  IN IF written.pc = "failed" THEN written ELSE [written EXCEPT !.pc = "done"]

\* ------------------------------------- phase reducer (multiPhaseKWayMerge)
\* merge workers the pool runs at once (os.cpus().length in the source)
maxWorkers == 2

\* variant of PhaseNeeded without the forced first phase
PhaseNeededAboveFanIn(currentFiles, phaseNumber) ==
  Len(currentFiles) > chunksPerMerge

\* variant of PhaseNeeded that goes on while chunksPerMerge files are left
PhaseNeededAtFanIn(currentFiles, phaseNumber) ==
  Len(currentFiles) >= chunksPerMerge \/ phaseNumber = 1

\* the loop condition of line 608
PhaseNeeded(currentFiles, phaseNumber) ==
  Len(currentFiles) > chunksPerMerge \/ phaseNumber = 1

\* lines 621-634: the tasks of one phase
MergeTasks(currentFiles, phaseNumber) ==
  [b \in 1..NumBatches(currentFiles) |->
     [batch |-> Batch(currentFiles, b), mergeIndex |-> b - 1,
      isFirstPhase |-> (phaseNumber = 1), completed |-> FALSE, outputFile |-> <<>>]]

\* the names of the files of currentFiles: <<0, i>> is the i-th sorted chunk,
\* <<p, i>> is phase<p>/chunk_<i>.tmp
FileNames(currentFiles, phaseNumber) ==
  {<<phaseNumber - 1, i - 1>> : i \in 1..Len(currentFiles)}

\* Paths under the temp directory: phase is 0 for a file of the directory
\* itself and p for a file of its subdirectory phase<p>.
\* getSortedFiles (lines 1399-1406): chunk_<i>_sorted.tmp
SortedChunkPath(i) == [phase |-> 0, name |-> "chunk_sorted", index |-> i]
\* variant of PhaseOutputPath that does not use the merge index
PhaseOutputPathShared(phaseNumber, mergeIndex) ==
  [phase |-> phaseNumber, name |-> "chunk", index |-> 0]
\* lines 612 and 624: path.join(phaseDir, `chunk_${mergeIndex}.tmp`)
PhaseOutputPath(phaseNumber, mergeIndex) ==
  [phase |-> phaseNumber, name |-> "chunk", index |-> mergeIndex]
\* kWayMergeFinal lines 705 and 708: `${i}occ.tmp` and 10plusocc.tmp
PartitionPath(b) == [phase |-> 0, name |-> "occ", index |-> b]

\* lines 621-634, the paths of the tasks: batch is the slice of the current
\* paths, outputFile the path of the task's output
MergeTaskPaths(currentPaths, phaseNumber) ==
  [b \in 1..NumBatches(currentPaths) |->
     [batch |-> Batch(currentPaths, b),
      outputFile |-> PhaseOutputPath(phaseNumber, b - 1)]]

\* currentPaths[i] is the path of the file whose content is currentFiles[i],
\* taskPaths[t] the paths of task t
NewMultiPhase(files, keep) ==
  [pc |-> "loop", sortedFiles |-> files, keepSortedFiles |-> keep,
   currentFiles |-> files, phaseNumber |-> 1, mergeTasks |-> <<>>,
   activeWorkers |-> {}, queue |-> <<>>, unlinked |-> {}, failedTask |-> 0,
   currentPaths |-> [i \in 1..Len(files) |-> SortedChunkPath(i - 1)],
   taskPaths |-> <<>>]

\* lines 637-655 with MergeWorkerPool.executeMerge (lines 31-41): every task is
\* handed to the pool, which starts maxWorkers of them and queues the others
StartPhase(m) ==
  LET tasks == MergeTasks(m.currentFiles, m.phaseNumber)
      started == Min(Len(tasks), maxWorkers)
  IN [m EXCEPT !.pc = "merging", !.mergeTasks = tasks,
               !.taskPaths = MergeTaskPaths(m.currentPaths, m.phaseNumber),
               !.activeWorkers = 1..started,
               !.queue = [i \in 1..(Len(tasks) - started) |-> started + i]]

\* variant of WorkerComplete that leaves the queued tasks in the queue
WorkerCompleteKeepsQueue(m, t) ==
  [m EXCEPT !.mergeTasks[t].completed = TRUE,
            !.mergeTasks[t].outputFile =
               KWayMergeToSingleFile(m.mergeTasks[t].batch, m.mergeTasks[t].isFirstPhase),
            !.activeWorkers = @ \ {t}]

\* MergeWorkerPool._onWorkerComplete (lines 64-80): the worker of task t posts
\* its result, the file it wrote; the pool starts the next queued task
WorkerComplete(m, t) ==
  [m EXCEPT !.mergeTasks[t].completed = TRUE,
            !.mergeTasks[t].outputFile =
               KWayMergeToSingleFile(m.mergeTasks[t].batch, m.mergeTasks[t].isFirstPhase),
            !.activeWorkers = (@ \ {t}) \cup
               (IF m.queue # <<>> THEN {Head(m.queue)} ELSE {}),
            !.queue = IF m.queue # <<>> THEN Tail(@) ELSE @]

\* variant of WorkerFail in which the caller logs the failure and goes on with
\* the other tasks, the failed task counting as done without output
WorkerFailLogged(m, t) ==
  [m EXCEPT !.failedTask = t,
            !.mergeTasks[t].completed = TRUE,
            !.activeWorkers = (@ \ {t}) \cup
               (IF m.queue # <<>> THEN {Head(m.queue)} ELSE {}),
            !.queue = IF m.queue # <<>> THEN Tail(@) ELSE @]
\* The worker of task t reports success: false or emits 'error'.  The pool
\* (lines 64-80) settles the task's promise and starts the next queued task;
\* line 647 throws for success: false, executeMerge rejects for 'error'; the
\* Promise.all of line 658 rejects, multiPhaseKWayMerge throws and the catch of
\* run() (lines 1157-1171) starts to shut the pool down
WorkerFail(m, t) ==
  [m EXCEPT !.pc = "aborting",
            !.failedTask = t,
            !.activeWorkers = (@ \ {t}) \cup
               (IF m.queue # <<>> THEN {Head(m.queue)} ELSE {}),
            !.queue = IF m.queue # <<>> THEN Tail(@) ELSE @]

\* MergeWorkerPool.shutdown (lines 95-101), then run() rethrows
shutdown(m) == [m EXCEPT !.pc = "failed", !.activeWorkers = {}, !.queue = <<>>]

\* variant of EndPhase without the test of line 662: the inputs of every
\* phase are deleted
EndPhaseDeletingInputs(m) ==
  [m EXCEPT !.pc = "loop",
            !.unlinked = @ \cup FileNames(m.currentFiles, m.phaseNumber),
            !.currentFiles = [t \in 1..Len(m.mergeTasks) |-> m.mergeTasks[t].outputFile],
            !.currentPaths = [t \in 1..Len(m.taskPaths) |-> m.taskPaths[t].outputFile],
            !.mergeTasks = <<>>,
            !.taskPaths = <<>>,
            !.phaseNumber = @ + 1]

\* lines 658-675: all merges of the phase are done
EndPhase(m) ==
  [m EXCEPT !.pc = "loop",
            !.unlinked = IF m.phaseNumber = 1 /\ m.keepSortedFiles THEN @
                         ELSE @ \cup FileNames(m.currentFiles, m.phaseNumber),
            !.currentFiles = [t \in 1..Len(m.mergeTasks) |-> m.mergeTasks[t].outputFile],
            !.currentPaths = [t \in 1..Len(m.taskPaths) |-> m.taskPaths[t].outputFile],
            !.mergeTasks = <<>>,
            !.taskPaths = <<>>,
            !.phaseNumber = @ + 1]

\* lines 682-687: after kWayMergeFinal returned, its input files are deleted
EndFinal(m) ==
  [m EXCEPT !.pc = "done",
            !.unlinked = @ \cup FileNames(m.currentFiles, m.phaseNumber)]

\* ------------------------------------------- chunk writer (writePositionsToChunk)
\* positions a fen-worker message can carry: {fen, result, gameId}
ExtractedPositions ==
  {[fen |-> "e4fen", result |-> "1-0", gameId |-> "g1"],
   [fen |-> "d4fen", result |-> "0-1", gameId |-> "g2"],
   [fen |-> "e4fen", result |-> "1/2-1/2", gameId |-> "g3"]}

\* the first line of the position index file (line 224)
IndexHeader == <<Txt("fen"), Tab, Txt("game_id")>>
IndexLine(position) == <<Fen(position.fen), Tab, Txt(position.gameId)>>

\* the constructor (lines 122-123, 145-146): no stream is open
NewChunkWriter ==
  [pc |-> "new", chunkIndex |-> 0, positionsInCurrentChunk |-> 0,
   positionsProcessed |-> 0, chunks |-> <<>>, index |-> <<>>, indexOpen |-> FALSE,
   received |-> <<>>]

\* initChunk (lines 207-228): chunk_<chunkIndex>.tmp is created empty, the index
\* file is created with its header if it is not open yet.  chunks[i + 1] is the
\* content of chunk_<i>.tmp
InitChunk(w) ==
  [w EXCEPT !.chunks = [i \in 1..(w.chunkIndex + 1) |->
                          IF i <= Len(w.chunks) /\ i # w.chunkIndex + 1
                          THEN w.chunks[i] ELSE <<>>],
            !.index = IF w.indexOpen THEN @ ELSE <<IndexHeader>>,
            !.indexOpen = TRUE,
            !.positionsInCurrentChunk = 0]

\* variant of ChunkIsFull that rotates one position late
ChunkIsFullOffByOne(positionsInCurrentChunk) == positionsInCurrentChunk > chunkSize
\* line 236
ChunkIsFull(positionsInCurrentChunk) == positionsInCurrentChunk >= chunkSize

\* lines 234-254: the body of the for loop, for one position
WritePosition(w, position) ==
  LET r == IF ChunkIsFull(w.positionsInCurrentChunk)
           THEN InitChunk([w EXCEPT !.chunkIndex = @ + 1]) ELSE w
  IN [r EXCEPT !.chunks[r.chunkIndex + 1] =
                  Append(@, ChunkLine(position.fen, position.result)),
               !.index = IF position.gameId # "" THEN Append(@, IndexLine(position)) ELSE @,
               !.positionsInCurrentChunk = @ + 1,
               !.positionsProcessed = @ + 1]

RECURSIVE WritePositions(_, _)
WritePositions(w, positions) ==
  IF positions = <<>> THEN w
  ELSE WritePositions(WritePosition(w, Head(positions)), Tail(positions))

\* the sequences over S of length 0..n
SeqsUpTo(S, n) == UNION {[1..k -> S] : k \in 0..n}

\* --------------------------------------------- chunk sorter (processSingleChunk)
\* a line of blanks, which line.trim() makes empty
BlankLine == <<Txt(" ")>>
Trim(line) == IF line = BlankLine THEN <<>> ELSE line

\* variant of SortKey that takes the text after the first '|'
SortKeyAfterPipe(line) ==
  LET fields == Split(line, Pipe) IN IF Len(fields) >= 2 THEN fields[2] ELSE <<>>
\* a.split('|')[0] (lines 520-521)
SortKey(line) == Split(line, Pipe)[1]

NewChunkSorter(file) ==
  [pc |-> "reading", chunkFile |-> file, chunkExists |-> TRUE, unread |-> file,
   lines |-> <<>>, lineCount |-> 0, sortedFile |-> <<>>, sortedExists |-> FALSE]

\* rl.on('line') (lines 508-513)
OnLine(s) ==
  LET line == Head(s.unread)
  IN [s EXCEPT !.unread = Tail(@),
               !.lines = IF Trim(line) # <<>> THEN Append(@, line) ELSE @,
               !.lineCount = IF Trim(line) # <<>> THEN @ + 1 ELSE @]

\* rl.on('close') (lines 515-530): sort, write every line
OnClose(s) ==
  [s EXCEPT !.pc = "writing",
            !.lines = StableSort(s.lines, [i \in 1..Len(s.lines) |-> Rank(SortKey(s.lines[i]))]),
            !.sortedFile = StableSort(s.lines,
                              [i \in 1..Len(s.lines) |-> Rank(SortKey(s.lines[i]))]),
            !.sortedExists = TRUE]

\* writeStream.on('finish') (lines 531-534): the unsorted chunk is deleted
OnFinish(s) == [s EXCEPT !.pc = "resolved", !.chunkExists = FALSE]

\* ----------------------- output assembly (sort10PlusOccByOccurrence, generateFinalFiles)
Header ==
  <<Txt("fen"), Tab, Txt("occurrence"), Tab, Txt("white"), Tab, Txt("black"), Tab, Txt("draw")>>

\* the lines readline gives for a file
NonBlank(lines) == SelectSeq(lines, LAMBDA line : Trim(line) # <<>>)

\* lines 1208-1212: occB - occA orders by decreasing occurrence
OccurrenceOf(line) ==
  LET fields == Split(line, Tab) IN IF Len(fields) >= 2 THEN ParseIntOr0(fields[2]) ELSE 0

\* variant of sort10PlusOccByOccurrence whose sort takes the rows of equal
\* occurrence in the reverse of their order in the bucket
Sort10PlusOccReversingTies(a) ==
  LET lines == NonBlank(a.partitions[TenPlus])
      back == [i \in 1..Len(lines) |-> lines[Len(lines) + 1 - i]]
  IN [a EXCEPT !.pc = "sorted",
               !.onlyrecurrent = <<Header>> \o
                  StableSort(back, [i \in 1..Len(back) |-> 0 - OccurrenceOf(back[i])])]

\* lines 1178-1231
Sort10PlusOccByOccurrence(a) ==
  LET lines == NonBlank(a.partitions[TenPlus])
  IN [a EXCEPT !.pc = "sorted",
               !.onlyrecurrent = <<Header>> \o
                  StableSort(lines, [i \in 1..Len(lines) |-> 0 - OccurrenceOf(lines[i])])]

\* variant of SkipFirstLine that copies the first line too
KeepFirstLine(lines) == lines
\* lines 1261-1268 and 1292-1299: isFirstLine skips the header
SkipFirstLine(lines) == IF lines = <<>> THEN <<>> ELSE Tail(lines)

\* variant of the loop of lines 1272-1279 that takes the partition files in
\* ascending order 2, 3, ..., from
RECURSIVE PartitionsUpTo(_, _)
PartitionsUpTo(partitions, from) ==
  IF from < 2 THEN <<>>
  ELSE PartitionsUpTo(partitions, from - 1) \o partitions[from]

\* the partition files i = from, from - 1, ..., 2 one after the other (lines 1272-1279)
RECURSIVE PartitionsDownFrom(_, _)
PartitionsDownFrom(partitions, from) ==
  IF from < 2 THEN <<>>
  ELSE partitions[from] \o PartitionsDownFrom(partitions, from - 1)

\* lines 1251-1281: fens-withoutone.tsv
WriteWithoutOne(a) ==
  [a EXCEPT !.pc = "withoutone",
            !.withoutone = <<Header>> \o SkipFirstLine(a.onlyrecurrent)
                             \o PartitionsDownFrom(a.partitions, TenPlus - 1)]

\* lines 1284-1310: fens-all.tsv
WriteAll(a) ==
  [a EXCEPT !.pc = "done",
            !.all = <<Header>> \o SkipFirstLine(a.withoutone) \o a.partitions[1]]

NewAssembly(partitions) ==
  [pc |-> "partitioned", partitions |-> partitions,
   onlyrecurrent |-> <<>>, withoutone |-> <<>>, all |-> <<>>]

\* ------------------------------------------------ extraction worker (fen-worker.js)
\* A FEN is its six space-separated fields.  The position a replay from the
\* standard start has reached after i plies: the placement is named by i, the
\* side to move alternates, the clock and the move number advance
ReplayFen(i) ==
  <<i, IF i % 2 = 0 THEN "w" ELSE "b", "KQkq", "-", i, 1 + i \div 2>>

\* variant of normalizeFen that keeps the halfmove clock
normalizeFenKeepClock(fen) == <<fen[1], fen[2], fen[3], fen[4], fen[5], 1>>

\* normalizeFen (lines 13-16): fen.split(' ') is the sequence of fields, the
\* template of line 15 joins parts[0..3], "0" and "1" with single spaces
normalizeFen(fen) == <<fen[1], fen[2], fen[3], fen[4], 0, 1>>

\* normalizeFen of the older worker (part_006, lines 19-24): parts[4] and
\* parts[5] are overwritten and the parts joined with single spaces
normalizeFenInPlace(fen) == [[fen EXCEPT ![5] = 0] EXCEPT ![6] = 1]

\* two FENs before normalizeFen is called on them
NewNormalize(f, g) ==
  [pc |-> "input", f |-> f, g |-> g, keyF |-> <<>>, keyG |-> <<>>, again |-> <<>>,
   olderF |-> <<>>]

\* lines 59-60: the key of each position, and the key of a key
Normalize(n) ==
  [n EXCEPT !.pc = "normalized",
            !.keyF = normalizeFen(n.f),
            !.keyG = normalizeFen(n.g),
            !.again = normalizeFen(normalizeFen(n.f)),
            !.olderF = normalizeFenInPlace(n.f)]

\* A game text, by what the worker and chess.js read from it: the result token
\* at the end of the movetext ("" if none), the [ID "..."] tag ("" if none),
\* whether chess.js parses the movetext from the game's own start position
\* (pgn), the number of moves it has then (plies), whether the game starts from
\* a set-up position ([SetUp "1"] with a FEN tag), and the first move that is
\* illegal when the moves are replayed from the standard start (illegalAt, 0
\* if none; only the moves of a set-up game can be), and whether the text
\* contains 'tcec' in any case (tcec)
Game(result, gameId, pgn, plies, setUp, illegalAt) ==
  [result |-> result, gameId |-> gameId, pgn |-> pgn, plies |-> plies,
   setUp |-> setUp, illegalAt |-> illegalAt, tcec |-> FALSE]

\* the same game with an [Event "TCEC ..."] tag
TcecGame(gameText) == [gameText EXCEPT !.tcec = TRUE]

\* extractResult (lines 21-24) and extractGameId (lines 29-32): null is ""
extractResult(gameText) == gameText.result
extractGameId(gameText) == gameText.gameId

\* chess.js: loadPgn throws on movetext it cannot parse or play, history()
\* lists the moves loaded, move(san) throws on a move that is not legal in the
\* position of the replay
LoadPgnThrows(gameText) == gameText.pgn = "malformed"
HistoryLength(gameText) == gameText.plies
MoveThrows(gameText, i) == gameText.illegalAt = i

\* variant of the replay loop that does not add the final position
RECURSIVE ReplayFromNoFinal(_, _, _)
ReplayFromNoFinal(gameText, i, positions) ==
  LET position == [fen |-> normalizeFen(ReplayFen(i)),
                   result |-> extractResult(gameText),
                   gameId |-> extractGameId(gameText)]
  IN IF i >= HistoryLength(gameText) THEN positions
     ELSE IF MoveThrows(gameText, i + 1) THEN Append(positions, position)
     ELSE ReplayFromNoFinal(gameText, i + 1, Append(positions, position))

\* lines 58-77 inside the try of lines 40-82: the for loop from index i on,
\* then the final position; a throw of move() is caught at line 79 and line 81
\* returns the positions pushed so far
RECURSIVE ReplayFrom(_, _, _)
ReplayFrom(gameText, i, positions) ==
  LET position == [fen |-> normalizeFen(ReplayFen(i)),
                   result |-> extractResult(gameText),
                   gameId |-> extractGameId(gameText)]
      pushed == Append(positions, position)
  IN IF i >= HistoryLength(gameText) THEN pushed
     ELSE IF MoveThrows(gameText, i + 1) THEN pushed
     ELSE ReplayFrom(gameText, i + 1, pushed)

\* processGame (lines 37-85)
processGame(gameText) ==
  IF extractResult(gameText) = "" \/ extractResult(gameText) = "*" THEN <<>>
  ELSE IF extractGameId(gameText) = "" THEN <<>>
  ELSE IF LoadPgnThrows(gameText) THEN <<>>
  ELSE ReplayFrom(gameText, 0, <<>>)

\* the worker before a message: games is the batch of the message to come,
\* emitted[i] the positions processGame returned for game i
NewFenWorker(games) ==
  [pc |-> "waiting", games |-> games, i |-> 0, allPositions |-> <<>>,
   processedGames |-> 0, emitted |-> <<>>, message |-> <<>>]

\* parentPort.on('message') (lines 105-109)
ReceiveBatch(w) == [w EXCEPT !.pc = "running"]

\* lines 112-127: one pass of the for loop; a game text is a non-empty string
ProcessNextGame(w) ==
  LET positions == processGame(w.games[w.i + 1])
  IN [w EXCEPT !.i = @ + 1,
               !.allPositions = @ \o positions,
               !.processedGames = @ + 1,
               !.emitted = Append(@, positions)]

\* lines 130-137
PostResult(w) ==
  [w EXCEPT !.pc = "posted",
            !.message = <<[success |-> TRUE, positions |-> w.allPositions,
                           processedGames |-> w.processedGames]>>]


\* ------------------------------------ extraction (processPgnFileMultithread)
\* this.maxQueueSize (line 120)
maxQueueSize == numWorkers * 4

\* Games are numbered in file order; a batch is a sequence of game numbers.
\* The positions the worker answers for a batch: one position per game
PositionsOfBatch(batch) ==
  [g \in 1..Len(batch) |->
     [fen |-> FenOrder[(batch[g] % Len(FenOrder)) + 1], result |-> "1-0", gameId |-> "g1"]]

\* lines 274-284 and 367-378 for a file of `games` games: idLines counts the
\* '[ID ' lines the stream has not delivered yet (one per game), block those
\* the running 'data' handler still has to look at, gamesSeen those looked
\* at.  holding[i] is the batch worker thread i has received and not answered,
\* alive[i] whether thread i runs.  flowing is the state of the read stream
\* (pause() / resume()), pauses and resumes count these calls.  enqueued,
\* dispatched, written, dropped, crashed and finishCalls record what has been
\* done
NewExtraction(games) ==
  [pc |-> "new", idLines |-> games, block |-> 0, gamesSeen |-> 0,
   inGame |-> FALSE, currentBatch |-> <<>>, batchQueue |-> <<>>,
   workerStates |-> [i \in 1..numWorkers |-> TRUE], activeTasks |-> 0,
   isStreamingComplete |-> FALSE, streamPaused |-> FALSE,
   flowing |-> TRUE, ended |-> FALSE, pauses |-> 0, resumes |-> 0,
   holding |-> [i \in 1..numWorkers |-> <<>>],
   alive |-> [i \in 1..numWorkers |-> TRUE],
   enqueued |-> <<>>, dispatched |-> <<>>, written |-> <<>>, dropped |-> <<>>,
   crashed |-> <<>>, finishCalls |-> 0]

\* finishProcessing (lines 344-364); the streams are ended by the caller
finishProcessing(e) ==
  [e EXCEPT !.pc = "finished",
            !.alive = [i \in 1..numWorkers |-> FALSE],
            !.holding = [i \in 1..numWorkers |-> <<>>],
            !.finishCalls = @ + 1]

\* variant of ShouldResume that resumes as soon as the queue is below maxQueueSize
ShouldResumeBelowMax(streamPaused, queueLength) ==
  streamPaused /\ queueLength < maxQueueSize
\* line 336: streamPaused && batchQueue.length < this.maxQueueSize / 2
ShouldResume(streamPaused, queueLength) ==
  streamPaused /\ 2 * queueLength < maxQueueSize

\* line 399: !streamPaused && batchQueue.length >= this.maxQueueSize
ShouldPause(streamPaused, queueLength) ==
  ~streamPaused /\ queueLength >= maxQueueSize

\* variant of ShouldFinish that does not look at the active tasks
ShouldFinishQueueEmpty(e) == e.isStreamingComplete /\ e.batchQueue = <<>>
\* line 318: isStreamingComplete && activeTasks === 0 && batchQueue.length === 0
ShouldFinish(e) == e.isStreamingComplete /\ e.activeTasks = 0 /\ e.batchQueue = <<>>

\* processNextBatch (lines 314-340).  A message posted to a worker thread that
\* has exited is dropped
processNextBatch(e) ==
  LET available == {i \in 1..numWorkers : e.workerStates[i]}
  IN IF available = {} \/ e.batchQueue = <<>>
     THEN IF ShouldFinish(e) THEN finishProcessing(e) ELSE e
     ELSE
       LET availableWorkerIndex == CHOOSE i \in available : \A j \in available : i <= j
           batch == Head(e.batchQueue)
           resume == ShouldResume(e.streamPaused, Len(e.batchQueue) - 1)
       IN [e EXCEPT
            !.batchQueue = Tail(@),
            !.workerStates[availableWorkerIndex] = FALSE,
            !.activeTasks = @ + 1,
            !.holding[availableWorkerIndex] =
               IF e.alive[availableWorkerIndex] THEN batch ELSE @,
            !.dispatched = Append(@, [batch |-> batch, worker |-> availableWorkerIndex]),
            !.dropped = IF e.alive[availableWorkerIndex] THEN @ ELSE Append(@, batch),
            !.streamPaused = IF resume THEN FALSE ELSE @,
            !.flowing = IF resume THEN TRUE ELSE @,
            !.resumes = IF resume THEN @ + 1 ELSE @]

\* stream.on('data') (lines 380-386): a block with k '[ID ' lines arrives
OnData(e, k) == [e EXCEPT !.pc = "data", !.block = k, !.idLines = @ - k]

\* lines 388-409: one '[ID ' line of the block.  The game before it, if any,
\* is pushed to currentBatch; a full batch is queued, the stream is paused if
\* the queue is long, and processNextBatch is called
OnIdLine(e) ==
  LET batch == IF e.inGame THEN Append(e.currentBatch, e.gamesSeen) ELSE e.currentBatch
      full == e.inGame /\ Len(batch) >= fenBatchSize
      queued == IF full
                THEN [e EXCEPT !.batchQueue = Append(@, batch), !.currentBatch = <<>>,
                               !.enqueued = Append(@, batch)]
                ELSE [e EXCEPT !.currentBatch = batch]
      pause == full /\ ShouldPause(queued.streamPaused, Len(queued.batchQueue))
      paused == IF pause
                THEN [queued EXCEPT !.streamPaused = TRUE, !.flowing = FALSE,
                                    !.pauses = @ + 1]
                ELSE queued
      next == IF full THEN processNextBatch(paused) ELSE paused
  IN [next EXCEPT !.inGame = TRUE, !.gamesSeen = @ + 1, !.block = @ - 1,
                  !.pc = IF e.block = 1 THEN "ready" ELSE "data"]

\* stream.on('end') (lines 416-440)
OnEnd(e) ==
  LET batch == IF e.inGame THEN Append(e.currentBatch, e.gamesSeen) ELSE e.currentBatch
      queued == IF Len(batch) > 0
                THEN [e EXCEPT !.batchQueue = Append(@, batch), !.currentBatch = batch,
                               !.enqueued = Append(@, batch)]
                ELSE e
  IN processNextBatch([queued EXCEPT !.isStreamingComplete = TRUE, !.ended = TRUE])

\* variant of OnWorkerMessage that does not call processNextBatch
OnWorkerMessageNoDispatch(e, i) ==
  [e EXCEPT !.activeTasks = @ - 1, !.workerStates[i] = TRUE,
            !.written = Append(@, e.holding[i]),
            !.holding[i] = <<>>]

\* worker.on('message') with success (lines 286-303); the positions are
\* written by the caller
OnWorkerMessage(e, i) ==
  processNextBatch([e EXCEPT !.activeTasks = @ - 1, !.workerStates[i] = TRUE,
                             !.written = Append(@, e.holding[i]),
                             !.holding[i] = <<>>])

\* worker thread i ends with an uncaught error: worker.on('error') (lines 305-310)
OnWorkerError(e, i) ==
  processNextBatch([e EXCEPT !.activeTasks = @ - 1, !.workerStates[i] = TRUE,
                             !.crashed = Append(@, e.holding[i]),
                             !.alive[i] = FALSE,
                             !.holding[i] = <<>>])


\* ------------------------------------------------------------------ run()
\* The temp directory is a set of files [kind, index, lines]: chunk_<index>.tmp
\* has kind "chunk", chunk_<index>_sorted.tmp has kind "sorted"
WriteFile(dir, kind, index, lines) ==
  {f \in dir : ~(f.kind = kind /\ f.index = index)}
    \cup {[kind |-> kind, index |-> index, lines |-> lines]}
RemoveFile(dir, kind, index) == {f \in dir : ~(f.kind = kind /\ f.index = index)}
FileOf(dir, kind, index) == CHOOSE f \in dir : f.kind = kind /\ f.index = index

\* line 558: startsWith('chunk_') && endsWith('.tmp') && !includes('_sorted')
IsUnsortedChunk(f) == f.kind = "chunk"
\* line 1400: includes('_sorted.tmp')
IsSortedChunkFile(f) == f.kind = "sorted"

\* the indices of the listed files in ascending order (the sort of lines 559-563
\* and 1401-1405)
UnsortedIndices(dir) == Ascending({f.index : f \in {g \in dir : IsUnsortedChunk(g)}})
SortedIndices(dir) == Ascending({f.index : f \in {g \in dir : IsSortedChunkFile(g)}})

\* processSingleChunk run to its end on a file
RECURSIVE RunChunkSorter(_)
RunChunkSorter(s) ==
  IF s.pc = "resolved" THEN s
  ELSE IF s.pc = "writing" THEN RunChunkSorter(OnFinish(s))
  ELSE IF s.unread # <<>> THEN RunChunkSorter(OnLine(s))
  ELSE RunChunkSorter(OnClose(s))
processSingleChunk(lines) == RunChunkSorter(NewChunkSorter(lines)).sortedFile

\* the merge tasks of a phase run to their end
RECURSIVE CompleteTasks(_)
CompleteTasks(m) ==
  IF m.activeWorkers = {} THEN m
  ELSE CompleteTasks(WorkerComplete(m,
         CHOOSE t \in m.activeWorkers : \A u \in m.activeWorkers : t <= u))

\* the while loop of multiPhaseKWayMerge (lines 608-676)
RECURSIVE ReducePhases(_)
ReducePhases(m) ==
  IF PhaseNeeded(m.currentFiles, m.phaseNumber)
  THEN ReducePhases(EndPhase(CompleteTasks(StartPhase(m))))
  ELSE m

\* kWayMergeFinal run to its end
RECURSIVE RunFinalMerge(_)
RunFinalMerge(f) ==
  IF f.pc = "loop" THEN RunFinalMerge(FinalIteration(f))
  ELSE IF f.pc = "last" THEN FinalWriteLast(f)
  ELSE f

\* multiPhaseKWayMerge(sortedFiles, true): the state of the final merge when it
\* has returned ("done") or thrown ("failed")
multiPhaseKWayMerge(sortedFiles) ==
  RunFinalMerge(NewFinalMerge(ReducePhases(NewMultiPhase(sortedFiles, TRUE)).currentFiles))

\* the FenProcessor before run(): input stands for the input file, by the
\* positions its games give in extraction order
NewRun(resumeMode, input, dir) ==
  [pc |-> "start", resumeMode |-> resumeMode, input |-> input, dir |-> dir,
   extractions |-> 0, sorts |-> <<>>, mergeInput |-> <<>>,
   partitions |-> [b \in Buckets |-> <<>>], positionsWritten |-> 0,
   onlyrecurrent |-> <<>>, withoutone |-> <<>>, all |-> <<>>, failedAt |-> ""]

\* a stage of the try block (lines 1106-1126) throws: control goes to the catch
Throw(r) == [r EXCEPT !.pc = "thrown", !.failedAt = r.pc]

\* variant of RunCatch that cleans the temp directory up before it rethrows
RunCatchCleaning(r) == [r EXCEPT !.pc = "failed", !.dir = {}]
\* the catch of run() (lines 1157-1171): the error is logged, the merge worker
\* pool is shut down and the error is thrown again
RunCatch(r) == [r EXCEPT !.pc = "failed"]

\* lines 1108-1109: processPgnFileMultithread unless resumeMode.  The chunk
\* writer writes chunk_0.tmp .. chunk_<chunkIndex>.tmp
RECURSIVE WriteChunkFiles(_, _, _)
WriteChunkFiles(dir, chunks, i) ==
  IF i > Len(chunks) THEN dir
  ELSE WriteChunkFiles(WriteFile(dir, "chunk", i - 1, chunks[i]), chunks, i + 1)

\* variant of RunExtraction that extracts in resume mode too
RunExtractionAlways(r) ==
  [r EXCEPT !.pc = "sort",
            !.extractions = @ + 1,
            !.dir = WriteChunkFiles(@,
                      WritePositions(InitChunk(NewChunkWriter), r.input).chunks, 1)]
RunExtraction(r) ==
  IF r.resumeMode THEN [r EXCEPT !.pc = "sort"]
  ELSE [r EXCEPT !.pc = "sort",
                 !.extractions = @ + 1,
                 !.dir = WriteChunkFiles(@,
                           WritePositions(InitChunk(NewChunkWriter), r.input).chunks, 1)]

\* processAllChunks (lines 550-589): every unsorted chunk is sorted into its
\* _sorted file and deleted
RECURSIVE SortChunks(_, _)
SortChunks(r, indices) ==
  IF indices = <<>> THEN r
  ELSE LET i == Head(indices)
           sortedFile == processSingleChunk(FileOf(r.dir, "chunk", i).lines)
       IN SortChunks([r EXCEPT !.dir = WriteFile(RemoveFile(@, "chunk", i),
                                                 "sorted", i, sortedFile),
                               !.sorts = Append(@, i)],
                     Tail(indices))
processAllChunks(r) == [SortChunks(r, UnsortedIndices(r.dir)) EXCEPT !.pc = "list"]

\* getSortedFiles (lines 1392-1415): throws when there is none
getSortedFiles(r) ==
  LET indices == SortedIndices(r.dir)
  IN IF indices = <<>> THEN Throw(r)
     ELSE [r EXCEPT !.pc = "merge",
                    !.mergeInput = [n \in 1..Len(indices) |->
                                      FileOf(r.dir, "sorted", indices[n]).lines]]

\* line 1113: await this.multiPhaseKWayMerge(sortedFiles, true)
RunMerge(r) ==
  LET final == multiPhaseKWayMerge(r.mergeInput)
  IN [r EXCEPT !.pc = IF final.pc = "done" THEN "sort10" ELSE "thrown",
               !.failedAt = IF final.pc = "done" THEN @ ELSE r.pc,
               !.partitions = final.partitions,
               !.positionsWritten = final.positionsWritten]

\* lines 1116-1119: sort10PlusOccByOccurrence and generateFinalFiles
RunAssembly(r) ==
  LET a == WriteAll(WriteWithoutOne(Sort10PlusOccByOccurrence(NewAssembly(r.partitions))))
  IN [r EXCEPT !.pc = "cleanup", !.onlyrecurrent = a.onlyrecurrent,
               !.withoutone = a.withoutone, !.all = a.all]

\* lines 1122-1126: the statistics, then the partition files, the phase
\* directories and the _sorted files are deleted
RunCleanup(r) ==
  [r EXCEPT !.pc = "done", !.dir = {f \in @ : ~IsSortedChunkFile(f)}]

\* one stage of run()
RunStage(r) ==
  IF r.pc = "start" THEN RunExtraction(r)
  ELSE IF r.pc = "sort" THEN processAllChunks(r)
  ELSE IF r.pc = "list" THEN getSortedFiles(r)
  ELSE IF r.pc = "merge" THEN RunMerge(r)
  ELSE IF r.pc = "sort10" THEN RunAssembly(r)
  ELSE IF r.pc = "thrown" THEN RunCatch(r)
  ELSE RunCleanup(r)

\* run() up to the stage `until`, or to its end
RECURSIVE RunUntil(_, _)
RunUntil(r, until) ==
  IF r.pc \in {until, "done", "failed"} THEN r ELSE RunUntil(RunStage(r), until)


\* ------------------------------------ chunk write streams (fs.createWriteStream)
\* w is the chunk writer: w.chunks[i] holds the lines passed to write() of the
\* stream of chunk i.  A write stream keeps the lines in memory and writes them
\* to its file one after the other as the file system completes each write:
\* flushed[i] is the number of lines of chunk i that are in the file.  ended[i]
\* says end() was called on the stream, finished[i] that it emitted 'finish'.
\* reads[i] is what processSingleChunk found in chunk i (none yet: <<>>)
NewChunkStreams ==
  [pc |-> "new", w |-> NewChunkWriter, flushed |-> <<>>, ended |-> <<>>,
   finished |-> <<>>, reads |-> <<>>]

\* the streams after the writer went from chunk index `before` to w.chunkIndex:
\* line 237 ends the stream of each chunk left, line 214 opens the next one
Rotate(c, w, before) ==
  [c EXCEPT !.w = w,
            !.flushed = [i \in 1..(w.chunkIndex + 1) |->
                           IF i <= Len(c.flushed) THEN c.flushed[i] ELSE 0],
            !.ended = [i \in 1..(w.chunkIndex + 1) |-> i <= w.chunkIndex],
            !.finished = [i \in 1..(w.chunkIndex + 1) |->
                            IF i <= Len(c.finished) THEN c.finished[i] ELSE FALSE],
            !.reads = [i \in 1..(w.chunkIndex + 1) |->
                         IF i <= Len(c.reads) THEN c.reads[i] ELSE <<>>]]

\* processPgnFileMultithread line 274: this.initChunk()
OpenFirstChunk(c) == [Rotate(c, InitChunk(c.w), 0) EXCEPT !.pc = "open"]

\* writePositionsToChunk (lines 233-254) on the positions of a worker message
WriteToStreams(c, positions) == Rotate(c, WritePositions(c.w, positions), c.w.chunkIndex)

\* the file system completes the next write of the stream of chunk i
FlushLine(c, i) == [c EXCEPT !.flushed[i] = @ + 1]

\* the stream of chunk i, ended and with nothing left to write, emits 'finish'
EmitFinish(c, i) == [c EXCEPT !.finished[i] = TRUE]

\* finishProcessing (lines 344-363): end() on the stream of the last chunk
\* (lines 347-349), then promiseResolve() (lines 360-362); run() goes on to
\* processAllChunks (line 1110)
EndAndResolve(c) ==
  [c EXCEPT !.pc = "sorting", !.ended = [i \in DOMAIN c.ended |-> TRUE]]

\* processSingleChunk (lines 497-546) on chunk i: the read stream delivers the
\* lines that are in the file, the sorted file is written from them and the
\* chunk file is unlinked
ReadChunk(c, i) ==
  LET onDisk == SubSeq(c.w.chunks[i], 1, c.flushed[i])
  IN [c EXCEPT !.reads[i] = <<[finished |-> c.finished[i],
                               sortedFile |-> processSingleChunk(onDisk)]>>]

\* processAllChunks (lines 566-574): the chunks are sorted in batches of
\* numWorkers, a batch starts when the batches before it are done
InCurrentBatch(c, i) ==
  /\ c.reads[i] = <<>>
  /\ \A j \in 1..(((i - 1) \div numWorkers) * numWorkers) : c.reads[j] # <<>>


\* ------------------------------------------------ chunk sort (processAllChunks)
\* line 570: at most 32 chunks are sorted at a time
MaxSortBatch == 32
SortBatchSize == Min(numWorkers, MaxSortBatch)

\* The temp directory holds chunk_0.tmp .. chunk_<n-1>.tmp with the lines
\* chunks[k].  jobs[k] is the processSingleChunk call for chunk k ("waiting"
\* before it is made); its chunkExists and sortedExists say which of the two
\* files are on disk.  flushed[k] counts the lines of the sorted file that have
\* reached the disk, calls[k] the processSingleChunk calls for chunk k.
\* chunkFiles is the listing of lines 557-564, i the loop variable of line 570
NewSortAll(chunks) ==
  [pc |-> "start", chunkFiles |-> <<>>, i |-> 0,
   jobs |-> [k \in 1..Len(chunks) |-> [NewChunkSorter(chunks[k]) EXCEPT !.pc = "waiting"]],
   flushed |-> [k \in 1..Len(chunks) |-> 0],
   calls |-> [k \in 1..Len(chunks) |-> 0],
   sortedFiles |-> <<>>]

\* lines 557-564: the unsorted chunk files, by their number
ListChunkFiles(a) ==
  [a EXCEPT !.pc = "loop",
            !.chunkFiles = Ascending({k \in DOMAIN a.jobs : a.jobs[k].chunkExists})]

\* the chunks of the batch that starts at a.i (line 571)
SortBatch(a) ==
  SubSeq(a.chunkFiles, a.i + 1, Min(a.i + SortBatchSize, Len(a.chunkFiles)))
InSortBatch(a, k) == \E n \in 1..Len(SortBatch(a)) : SortBatch(a)[n] = k

\* lines 570-574: the loop test, then processSingleChunk for every chunk of the
\* batch
StartSortBatch(a) ==
  IF a.i >= Len(a.chunkFiles) THEN [a EXCEPT !.pc = "done"]
  ELSE [a EXCEPT !.pc = "sorting",
                 !.jobs = [k \in DOMAIN a.jobs |->
                             IF InSortBatch(a, k) THEN [a.jobs[k] EXCEPT !.pc = "reading"]
                             ELSE a.jobs[k]],
                 !.calls = [k \in DOMAIN a.calls |->
                              IF InSortBatch(a, k) THEN a.calls[k] + 1 ELSE a.calls[k]]]

\* the handlers of the processSingleChunk call for chunk k
SortJobLine(a, k) == [a EXCEPT !.jobs[k] = OnLine(a.jobs[k])]
\* variant of SortJobClose that deletes the chunk file as soon as the lines
\* have been handed to the write stream
SortJobCloseUnlinking(a, k) ==
  [a EXCEPT !.jobs[k] = [OnClose(a.jobs[k]) EXCEPT !.chunkExists = FALSE],
            !.flushed[k] = 0]
SortJobClose(a, k) == [a EXCEPT !.jobs[k] = OnClose(a.jobs[k]), !.flushed[k] = 0]
\* the write stream of the sorted file writes one more line to the disk
SortJobFlush(a, k) == [a EXCEPT !.flushed[k] = @ + 1]
SortJobFinish(a, k) == [a EXCEPT !.jobs[k] = OnFinish(a.jobs[k])]

\* lines 572-583: Promise.all has resolved, the 100 ms wait is over
EndSortBatch(a) ==
  [a EXCEPT !.pc = "loop",
            !.sortedFiles = @ \o SortBatch(a),
            !.i = @ + SortBatchSize]


\* ------------------------------------- line readers, block by block
\* A text is a sequence of characters.  String.prototype.trim removes the white
\* space at both ends
Newline == "\n"
Space == " "
RECURSIVE TrimStart(_)
TrimStart(text) ==
  IF text # <<>> /\ Head(text) \in {Space, Newline} THEN TrimStart(Tail(text)) ELSE text
RECURSIVE TrimEnd(_)
TrimEnd(text) ==
  IF text # <<>> /\ text[Len(text)] \in {Space, Newline}
  THEN TrimEnd(SubSeq(text, 1, Len(text) - 1)) ELSE text
TrimText(text) == TrimEnd(TrimStart(text))

\* A reader object with its read stream (merge-worker.js 232-247, fen.js
\* 711-725).  Of the stream: unloaded is the part of the file not read from the
\* disk yet, internal the data read and not yet returned by read(), eof says
\* that the end of the file has been met, ended that 'end' has been emitted
\* (readStream.readable is then false).  An empty currentLine stands for null
\* and for ''.  kind names the reader ("batch": merge worker, "line": final
\* merge); pc is "waiting" while the handlers of 'readable' and 'end' are
\* registered, "retry" while setImmediate(tryReadMore) is pending; after is the
\* place of the caller where the awaited call resolves; delivered lists the
\* lines the merge loop has taken
NewLineReader(kind, file) ==
  [kind |-> kind, pc |-> "new", after |-> "loop", file |-> file,
   unloaded |-> file, internal |-> <<>>, eof |-> FALSE, ended |-> FALSE,
   buffer |-> <<>>, lineQueue |-> <<>>, currentLine |-> <<>>,
   streamEnded |-> FALSE, finished |-> FALSE, batchSize |-> 0, delivered |-> <<>>]

\* resolve() of the pending call; after the await of fen.js line 790 the loop
\* marks the reader finished when it has no line and its stream has ended
\* (lines 791-793)
ResolveRead(r) ==
  [r EXCEPT !.pc = r.after,
            !.finished = @ \/ (r.kind = "line" /\ r.currentLine = <<>> /\ r.streamEnded)]

\* fen.js readNextLine, processBuffer (lines 877-894): one line is cut from the
\* buffer and becomes currentLine; the call resolves if it is not blank
BufferedLineIsNotBlank(r) ==
  LET newlineIndex == IndexOf(r.buffer, Newline, 1)
  IN newlineIndex # 0 /\ TrimText(SubSeq(r.buffer, 1, newlineIndex - 1)) # <<>>
processBuffer(r) ==
  LET newlineIndex == IndexOf(r.buffer, Newline, 1)
  IN IF newlineIndex = 0 THEN r
     ELSE [r EXCEPT !.currentLine = TrimText(SubSeq(r.buffer, 1, newlineIndex - 1)),
                    !.buffer = SubSeq(r.buffer, newlineIndex + 1, Len(r.buffer))]

\* fen.js readNextLine, tryReadMore (lines 896-944)
tryReadMore(r) ==
  IF r.ended \/ r.streamEnded
  THEN IF Len(r.buffer) > 0 /\ TrimText(r.buffer) # <<>>
       THEN ResolveRead([r EXCEPT !.streamEnded = TRUE,
                                  !.currentLine = TrimText(r.buffer),
                                  !.buffer = <<>>])
       ELSE ResolveRead([r EXCEPT !.streamEnded = TRUE,
                                  !.currentLine = <<>>,
                                  !.finished = TRUE])
  ELSE IF r.internal # <<>>
  THEN LET read == [r EXCEPT !.buffer = @ \o r.internal, !.internal = <<>>]
       IN IF BufferedLineIsNotBlank(read) THEN ResolveRead(processBuffer(read))
          ELSE [processBuffer(read) EXCEPT !.pc = "retry"]
  ELSE [r EXCEPT !.pc = "waiting"]

\* fen.js readNextLine (lines 870-952)
readNextLine(r) ==
  IF r.finished THEN ResolveRead(r)
  ELSE IF BufferedLineIsNotBlank(r) THEN ResolveRead(processBuffer(r))
  ELSE tryReadMore(processBuffer(r))

\* merge-worker.js readNextLineBatch, processBuffer (lines 111-130): lines are
\* cut from the buffer until targetLines lines that are not blank are queued
RECURSIVE CutLines(_, _, _)
CutLines(r, linesFound, targetLines) ==
  LET newlineIndex == IndexOf(r.buffer, Newline, 1)
      trimmedLine == TrimText(SubSeq(r.buffer, 1, newlineIndex - 1))
  IN IF linesFound >= targetLines \/ newlineIndex = 0 THEN r
     ELSE CutLines([r EXCEPT !.buffer = SubSeq(r.buffer, newlineIndex + 1, Len(r.buffer)),
                             !.lineQueue = IF trimmedLine # <<>>
                                           THEN Append(@, trimmedLine) ELSE @],
                   IF trimmedLine # <<>> THEN linesFound + 1 ELSE linesFound,
                   targetLines)
processBufferBatch(r) == CutLines(r, 0, Max(1, r.batchSize - Len(r.lineQueue)))

\* merge-worker.js readNextLineBatch, tryReadMore (lines 132-191).  read()
\* returns all the data the stream holds and then null until more is loaded,
\* so the loop of lines 155-160 takes the data of one read()
tryReadMoreBatch(r) ==
  IF r.ended \/ r.streamEnded
  THEN LET remainingData == TrimText(r.buffer)
           pushed == Len(r.buffer) > 0 /\ remainingData # <<>>
           queue == IF pushed THEN Append(r.lineQueue, remainingData) ELSE r.lineQueue
       IN ResolveRead([r EXCEPT !.streamEnded = TRUE,
                                !.lineQueue = queue,
                                !.buffer = IF pushed THEN <<>> ELSE @,
                                !.finished = (queue = <<>>)])
  ELSE IF r.internal # <<>>
  THEN LET read == processBufferBatch([r EXCEPT !.buffer = @ \o r.internal,
                                                !.internal = <<>>])
       IN IF Len(read.lineQueue) >= r.batchSize \/ Len(read.lineQueue) > 0
          THEN ResolveRead(read)
          ELSE [read EXCEPT !.pc = "retry"]
  ELSE [r EXCEPT !.pc = "waiting"]

\* merge-worker.js readNextLineBatch (lines 104-202)
readNextLineBatch(r, batchSize) ==
  IF r.finished THEN ResolveRead(r)
  ELSE LET cut == processBufferBatch([r EXCEPT !.batchSize = batchSize])
       IN IF Len(cut.lineQueue) >= batchSize THEN ResolveRead(cut)
          ELSE tryReadMoreBatch(cut)

\* the first call on a reader: merge-worker.js line 250, fen.js lines 727-729
FirstRead(r) ==
  IF r.kind = "batch" THEN readNextLineBatch([r EXCEPT !.after = "loop"], FirstBatchLines)
  ELSE readNextLine([r EXCEPT !.after = "loop"])

\* merge-worker.js lines 256-263: the head of the while loop with its reload
WorkerLoopHead(r) ==
  IF r.finished THEN [r EXCEPT !.pc = "done"]
  ELSE IF Len(r.lineQueue) < ReloadBelow
  THEN readNextLineBatch([r EXCEPT !.after = "reloaded"], ReloadBatchLines)
  ELSE [r EXCEPT !.pc = "reloaded"]

\* merge-worker.js lines 266-345: the rest of the iteration, for one reader:
\* without a queued line the loop is left (line 288), otherwise the line at the
\* head of the queue is taken (line 315)
WorkerTakeLine(r) ==
  IF r.finished \/ r.lineQueue = <<>> THEN [r EXCEPT !.pc = "done"]
  ELSE [r EXCEPT !.pc = "loop",
                 !.lineQueue = Tail(@),
                 !.delivered = Append(@, Head(r.lineQueue)),
                 !.finished = (Len(r.lineQueue) = 1 /\ r.streamEnded)]

\* fen.js lines 739-794: one iteration of the while loop, for one reader:
\* without a current line the loop is left (line 760), otherwise the current
\* line is counted and the next line is awaited (line 790)
FinalTakeLine(r) ==
  IF r.finished \/ r.currentLine = <<>> THEN [r EXCEPT !.pc = "done"]
  ELSE readNextLine([r EXCEPT !.after = "loop",
                              !.delivered = Append(@, r.currentLine)])

\* the read stream loads the next n characters of the file
StreamLoad(r, n) ==
  [r EXCEPT !.internal = @ \o SubSeq(r.unloaded, 1, n),
            !.unloaded = SubSeq(r.unloaded, n + 1, Len(r.unloaded))]
\* the read stream meets the end of the file
StreamEof(r) == [r EXCEPT !.eof = TRUE]

\* 'readable' while a call waits: onReadable (merge-worker.js 174-180, fen.js
\* 926-932)
onReadable(r) ==
  IF r.finished THEN r
  ELSE IF r.kind = "batch" THEN tryReadMoreBatch(r) ELSE tryReadMore(r)

\* 'end': readStream.readable becomes false; while a call waits, onEnd runs
\* (merge-worker.js 182-187, fen.js 933-938)
onEnd(r) ==
  IF r.pc # "waiting" THEN [r EXCEPT !.ended = TRUE]
  ELSE IF r.kind = "batch"
  THEN tryReadMoreBatch([r EXCEPT !.ended = TRUE, !.streamEnded = TRUE])
  ELSE tryReadMore([r EXCEPT !.ended = TRUE, !.streamEnded = TRUE])

\* setImmediate(tryReadMore) (merge-worker.js 172, fen.js 923)
RetryRead(r) == IF r.kind = "batch" THEN tryReadMoreBatch(r) ELSE tryReadMore(r)


\* ---------------------------------------------------------- idle components
FinalIdle == [NewFinalMerge(<<>>) EXCEPT !.pc = "idle"]
MergeTaskIdle == inputFiles = <<>> /\ mw = NewMergeWorker(<<>>, TRUE)
PipelineIdle == mp = NewMultiPhase(<<>>, TRUE) /\ fm = FinalIdle
WriterIdle == writer = NewChunkWriter
SorterIdle == sorter = NewChunkSorter(<<>>)
AssemblyIdle == assembly = NewAssembly([b \in Buckets |-> <<>>])
FenWorkerIdle == fw = NewFenWorker(<<>>)
ExtractIdle == ex = NewExtraction(0)
RunIdle == run = NewRun(FALSE, <<>>, {})
NormalizeIdle == nf = NewNormalize(<<>>, <<>>)
StreamsIdle == cs = NewChunkStreams
SortAllIdle == sa = NewSortAll(<<>>)
LineReaderIdle == lr = NewLineReader("off", <<>>)
AuxIdle == SortAllIdle /\ LineReaderIdle
UnitsIdle == NormalizeIdle /\ StreamsIdle /\ AuxIdle
StagesIdle == FenWorkerIdle /\ ExtractIdle /\ RunIdle /\ UnitsIdle

\* ------------------------------------------------ one merge task, step by step
\* The task is a phase-1 task over one batch of sorted chunks, or a later-phase
\* task over one batch of files that phase-1 tasks wrote.
MergeTaskInit ==
  /\ \E n \in 0..MaxRecords, first \in BOOLEAN :
       \E lines \in [1..n -> MergeKeys \X Results], cuts \in SUBSET (1..(n - 1)) :
         LET l == CutIntoFiles([i \in 1..n |-> ChunkLine(lines[i][1], lines[i][2])], cuts)
         IN /\ \A c \in 1..Len(l) : IsSortedChunk(l[c])
            /\ IF first THEN NumBatches(l) = 1 ELSE NumBatches(l) <= chunksPerMerge
            /\ inputFiles = IF first THEN l
                            ELSE [b \in 1..NumBatches(l) |->
                                    KWayMergeToSingleFile(Batch(l, b), TRUE)]
            /\ mw = NewMergeWorker(inputFiles, first)
  /\ PipelineIdle /\ WriterIdle /\ SorterIdle /\ AssemblyIdle /\ StagesIdle

OutcomeVectors(w) ==
  {js \in [DOMAIN w.readers -> 0..MaxRecords] :
     \A i \in DOMAIN w.readers : js[i] \in ReadOutcomes(w.readers[i])}

WorkerInitialRead ==
  /\ mw.pc = "init"
  /\ \E js \in OutcomeVectors(mw) : mw' = InitialRead(mw, js)
  /\ UNCHANGED <<stageVars, inputFiles, pipelineVars, writer, sorter, assembly>>

WorkerMergeIteration ==
  /\ mw.pc = "loop"
  /\ \E js \in OutcomeVectors(mw) : mw' = MergeIteration(mw, js)
  /\ UNCHANGED <<stageVars, inputFiles, pipelineVars, writer, sorter, assembly>>

WorkerWriteLast ==
  /\ mw.pc = "last"
  /\ mw' = WriteLast(mw)
  /\ UNCHANGED <<stageVars, inputFiles, pipelineVars, writer, sorter, assembly>>

MergeTaskNext == WorkerInitialRead \/ WorkerMergeIteration \/ WorkerWriteLast

SpecMergeTask == MergeTaskInit /\ [][MergeTaskNext]_vars

\* ------------------------------------- the merge pipeline (multiPhaseKWayMerge)
\* the chunk lines of the pipeline runs
PipelineLines ==
  {ChunkLine("e4fen", "1-0"), ChunkLine("e4fen", "1/2-1/2"), ChunkLine("d4fen", "0-1")}

\* run() calls multiPhaseKWayMerge(sortedFiles, true) with the sorted chunks
Init ==
  /\ \E n \in 0..MaxPipelineRecords :
       \E lines \in [1..n -> PipelineLines], cuts \in SUBSET (1..(n - 1)) :
         LET l == CutIntoFiles(lines, cuts)
         IN /\ \A c \in 1..Len(l) : IsSortedChunk(l[c])
            /\ mp = NewMultiPhase(l, TRUE)
  /\ fm = FinalIdle
  /\ MergeTaskIdle /\ WriterIdle /\ SorterIdle /\ AssemblyIdle /\ StagesIdle

PhaseStart ==
  /\ mp.pc = "loop" /\ PhaseNeeded(mp.currentFiles, mp.phaseNumber)
  /\ mp' = StartPhase(mp)
  /\ UNCHANGED <<stageVars, fm, mergeVars, writer, sorter, assembly>>

MergeWorkerComplete ==
  /\ mp.pc = "merging"
  /\ \E t \in mp.activeWorkers : mp' = WorkerComplete(mp, t)
  /\ UNCHANGED <<stageVars, fm, mergeVars, writer, sorter, assembly>>

PhaseEnd ==
  /\ mp.pc = "merging"
  /\ \A t \in DOMAIN mp.mergeTasks : mp.mergeTasks[t].completed
  /\ mp' = EndPhase(mp)
  /\ UNCHANGED <<stageVars, fm, mergeVars, writer, sorter, assembly>>

FinalStart ==
  /\ mp.pc = "loop" /\ ~PhaseNeeded(mp.currentFiles, mp.phaseNumber)
  /\ mp' = [mp EXCEPT !.pc = "final"]
  /\ fm' = NewFinalMerge(mp.currentFiles)
  /\ UNCHANGED <<stageVars, mergeVars, writer, sorter, assembly>>

FinalMergeIteration ==
  /\ mp.pc = "final" /\ fm.pc = "loop"
  /\ fm' = FinalIteration(fm)
  /\ UNCHANGED <<stageVars, mp, mergeVars, writer, sorter, assembly>>

FinalMergeLast ==
  /\ mp.pc = "final" /\ fm.pc = "last"
  /\ fm' = FinalWriteLast(fm)
  /\ UNCHANGED <<stageVars, mp, mergeVars, writer, sorter, assembly>>

\* kWayMergeFinal returned
FinalReturn ==
  /\ mp.pc = "final" /\ fm.pc = "done"
  /\ mp' = EndFinal(mp)
  /\ UNCHANGED <<stageVars, fm, mergeVars, writer, sorter, assembly>>

\* kWayMergeFinal threw (lines 824-829): multiPhaseKWayMerge ends with the error
FinalThrow ==
  /\ mp.pc = "final" /\ fm.pc = "failed"
  /\ mp' = [mp EXCEPT !.pc = "failed"]
  /\ UNCHANGED <<stageVars, fm, mergeVars, writer, sorter, assembly>>

Next ==
  \/ PhaseStart \/ MergeWorkerComplete \/ PhaseEnd \/ FinalStart
  \/ FinalMergeIteration \/ FinalMergeLast \/ FinalReturn \/ FinalThrow

Spec == Init /\ [][Next]_vars

\* every step of the pipeline is a promise callback or an awaited call of the
\* node event loop, which runs what is ready: weak fairness of every action.
\* For the two actions that run a whole merge, the fairness is written out,
\* WF_vars(A) being []<>~ENABLED <<A>>_vars \/ []<><<A>>_vars, with their guards
MergeWorkerCompleteEnabled == mp.pc = "merging" /\ mp.activeWorkers # {}
FinalMergeIterationEnabled == mp.pc = "final" /\ fm.pc = "loop"
FairSpec ==
  /\ Spec
  /\ WF_vars(PhaseStart) /\ WF_vars(PhaseEnd) /\ WF_vars(FinalStart)
  /\ WF_vars(FinalMergeLast) /\ WF_vars(FinalReturn) /\ WF_vars(FinalThrow)
  /\ ([]<>~MergeWorkerCompleteEnabled \/ []<><<MergeWorkerComplete>>_vars)
  /\ ([]<>~FinalMergeIterationEnabled \/ []<><<FinalMergeIteration>>_vars)

\* The phase reducer on 1..MaxChunks sorted chunks of one line each, when every
\* handler that can run does run (the fairness of FairSpec)
ReduceInit ==
  /\ \E n \in 1..MaxChunks :
       mp = NewMultiPhase([i \in 1..n |-> <<ChunkLine("e4fen", "1-0")>>], TRUE)
  /\ fm = FinalIdle
  /\ MergeTaskIdle /\ WriterIdle /\ SorterIdle /\ AssemblyIdle /\ StagesIdle

FairSpecReduce ==
  /\ ReduceInit /\ [][Next]_vars
  /\ WF_vars(PhaseStart) /\ WF_vars(PhaseEnd) /\ WF_vars(FinalStart)
  /\ WF_vars(FinalMergeLast) /\ WF_vars(FinalReturn) /\ WF_vars(FinalThrow)
  /\ ([]<>~MergeWorkerCompleteEnabled \/ []<><<MergeWorkerComplete>>_vars)
  /\ ([]<>~FinalMergeIterationEnabled \/ []<><<FinalMergeIteration>>_vars)

\* ------------------------------------------------------------ the chunk writer
WriterInit ==
  /\ writer = NewChunkWriter
  /\ MergeTaskIdle /\ PipelineIdle /\ SorterIdle /\ AssemblyIdle /\ StagesIdle

\* processPgnFileMultithread line 274
BeginExtraction ==
  /\ writer.pc = "new"
  /\ writer' = [InitChunk(writer) EXCEPT !.pc = "open"]
  /\ UNCHANGED <<stageVars, mergeVars, pipelineVars, sorter, assembly>>

\* a worker message with its positions (line 292)
WritePositionsToChunk ==
  /\ writer.pc = "open"
  /\ \E positions \in SeqsUpTo(ExtractedPositions, MaxBatch) :
       /\ writer.positionsProcessed + Len(positions) <= MaxWritten
       /\ writer' = [WritePositions(writer, positions) EXCEPT !.received = @ \o positions]
  /\ UNCHANGED <<stageVars, mergeVars, pipelineVars, sorter, assembly>>

\* finishProcessing (lines 344-352)
FinishProcessing ==
  /\ writer.pc = "open"
  /\ writer' = [writer EXCEPT !.pc = "closed"]
  /\ UNCHANGED <<stageVars, mergeVars, pipelineVars, sorter, assembly>>

WriterNext == BeginExtraction \/ WritePositionsToChunk \/ FinishProcessing

SpecWriter == WriterInit /\ [][WriterNext]_vars

\* ------------------------------------------------------------- the chunk sorter
\* the lines a chunk file on disk can hold
ChunkFileLines ==
  {ChunkLine(k, r) : k \in MergeKeys, r \in Results} \cup {BlankLine}

SorterInit ==
  /\ \E n \in 0..MaxChunkLines :
       \E file \in [1..n -> ChunkFileLines] :
         /\ Len(NonBlank(file)) <= chunkSize
         /\ sorter = NewChunkSorter(file)
  /\ MergeTaskIdle /\ PipelineIdle /\ WriterIdle /\ AssemblyIdle /\ StagesIdle

SorterOnLine ==
  /\ sorter.pc = "reading" /\ sorter.unread # <<>>
  /\ sorter' = OnLine(sorter)
  /\ UNCHANGED <<stageVars, mergeVars, pipelineVars, writer, assembly>>

SorterOnClose ==
  /\ sorter.pc = "reading" /\ sorter.unread = <<>>
  /\ sorter' = OnClose(sorter)
  /\ UNCHANGED <<stageVars, mergeVars, pipelineVars, writer, assembly>>

SorterOnFinish ==
  /\ sorter.pc = "writing"
  /\ sorter' = OnFinish(sorter)
  /\ UNCHANGED <<stageVars, mergeVars, pipelineVars, writer, assembly>>

SorterNext == SorterOnLine \/ SorterOnClose \/ SorterOnFinish

SpecSort == SorterInit /\ [][SorterNext]_vars

\* ---------------------------------------------------------- the output assembly
\* the record kWayMergeFinal writes for a FEN of occurrence o
PartitionRecord(k, o) ==
  FinalLine(<<Fen(k)>>, [occurrence |-> o, white |-> o - 1, black |-> 0, draw |-> 1])

\* the partition files for the FENs k of occurrence occ[k] > 0: each record is in
\* the file of its occurrence, the records of a file ascend by FEN
PartitionsOf(occ) ==
  [b \in Buckets |->
     LET ks == SelectSeq(FenOrder, LAMBDA k : occ[k] > 0 /\ PartitionKey(occ[k]) = b)
     IN [i \in 1..Len(ks) |-> PartitionRecord(ks[i], occ[ks[i]])]]

AssemblyInit ==
  /\ \E occ \in [Keys -> 0..MaxOccurrence] : assembly = NewAssembly(PartitionsOf(occ))
  /\ MergeTaskIdle /\ PipelineIdle /\ WriterIdle /\ SorterIdle /\ StagesIdle

AssemblySort10Plus ==
  /\ assembly.pc = "partitioned"
  /\ assembly' = Sort10PlusOccByOccurrence(assembly)
  /\ UNCHANGED <<stageVars, mergeVars, pipelineVars, writer, sorter>>

AssemblyWithoutOne ==
  /\ assembly.pc = "sorted"
  /\ assembly' = WriteWithoutOne(assembly)
  /\ UNCHANGED <<stageVars, mergeVars, pipelineVars, writer, sorter>>

AssemblyAll ==
  /\ assembly.pc = "withoutone"
  /\ assembly' = WriteAll(assembly)
  /\ UNCHANGED <<stageVars, mergeVars, pipelineVars, writer, sorter>>

AssemblyNext == AssemblySort10Plus \/ AssemblyWithoutOne \/ AssemblyAll

SpecAssemble == AssemblyInit /\ [][AssemblyNext]_vars

\* ------------------------------------------------------- the extraction worker
\* the game texts of the batches: games the worker rejects, and games with a
\* result and an ID whose movetext chess.js cannot load or loads with up to
\* MaxPlies moves, and games of an engine event
GameTexts ==
  {Game("", "g1", "ok", 1, FALSE, 0), Game("*", "g1", "ok", 1, FALSE, 0),
   Game("1-0", "", "ok", 1, FALSE, 0)}
  \cup {Game(r, "g1", "malformed", 0, FALSE, 0) : r \in {"1-0", "0-1"}}
  \cup {Game(r, "g1", "ok", n, FALSE, 0) : r \in {"1-0", "0-1"}, n \in 0..MaxPlies}
  \cup UNION {{Game(r, "g1", "ok", n, TRUE, k) : k \in 0..n} :
                r \in {"1-0", "0-1"}, n \in 0..MaxPlies}
  \cup {TcecGame(Game(r, id, "ok", 1, FALSE, 0)) : r \in {"", "1-0"}, id \in {"", "g1"}}

FenWorkerInit ==
  /\ \E n \in 0..MaxGames : \E games \in [1..n -> GameTexts] : fw = NewFenWorker(games)
  /\ ExtractIdle /\ RunIdle /\ UnitsIdle
  /\ MergeTaskIdle /\ PipelineIdle /\ WriterIdle /\ SorterIdle /\ AssemblyIdle

FenWorkerReceive ==
  /\ fw.pc = "waiting"
  /\ fw' = ReceiveBatch(fw)
  /\ UNCHANGED <<ex, run, unitVars, mergeVars, pipelineVars, writer, sorter, assembly>>

FenWorkerGame ==
  /\ fw.pc = "running" /\ fw.i < Len(fw.games)
  /\ fw' = ProcessNextGame(fw)
  /\ UNCHANGED <<ex, run, unitVars, mergeVars, pipelineVars, writer, sorter, assembly>>

FenWorkerPost ==
  /\ fw.pc = "running" /\ fw.i = Len(fw.games)
  /\ fw' = PostResult(fw)
  /\ UNCHANGED <<ex, run, unitVars, mergeVars, pipelineVars, writer, sorter, assembly>>

FenWorkerNext == FenWorkerReceive \/ FenWorkerGame \/ FenWorkerPost

SpecFenWorker == FenWorkerInit /\ [][FenWorkerNext]_vars


\* ------------------------------------------------------------- the extraction
ExtractInit ==
  /\ \E games \in 0..MaxFileGames : ex = NewExtraction(games)
  /\ writer = NewChunkWriter
  /\ FenWorkerIdle /\ RunIdle /\ UnitsIdle
  /\ MergeTaskIdle /\ PipelineIdle /\ SorterIdle /\ AssemblyIdle

\* the chunk and index streams after a handler: finishProcessing ends them
StreamsAfter(w, e) == IF e.pc = "finished" THEN [w EXCEPT !.pc = "closed"] ELSE w

\* lines 274-378: initChunk, the workers, the stream
ExtractBegin ==
  /\ ex.pc = "new"
  /\ ex' = [ex EXCEPT !.pc = "ready"]
  /\ writer' = [InitChunk(writer) EXCEPT !.pc = "open"]
  /\ UNCHANGED <<fw, run, unitVars, mergeVars, pipelineVars, sorter, assembly>>

\* a 'data' event: the stream is flowing and has data left
ExtractData ==
  /\ ex.pc = "ready" /\ ex.flowing /\ ~ex.ended /\ ex.idLines > 0
  /\ \E k \in 1..ex.idLines : ex' = OnData(ex, k)
  /\ UNCHANGED <<fw, run, unitVars, writer, mergeVars, pipelineVars, sorter, assembly>>

ExtractIdLine ==
  /\ ex.pc = "data"
  /\ ex' = OnIdLine(ex)
  /\ UNCHANGED <<fw, run, unitVars, writer, mergeVars, pipelineVars, sorter, assembly>>

\* the 'end' event: the stream is flowing and all data has been delivered
ExtractEnd ==
  /\ ex.pc = "ready" /\ ex.flowing /\ ~ex.ended /\ ex.idLines = 0
  /\ ex' = OnEnd(ex)
  /\ writer' = StreamsAfter(writer, ex')
  /\ UNCHANGED <<fw, run, unitVars, mergeVars, pipelineVars, sorter, assembly>>

\* worker i answers the batch it holds
ExtractWorkerMessage ==
  /\ ex.pc = "ready"
  /\ \E i \in 1..numWorkers :
       /\ ex.alive[i] /\ ex.holding[i] # <<>>
       /\ ex' = OnWorkerMessage(ex, i)
       /\ writer' = StreamsAfter(WritePositions(writer, PositionsOfBatch(ex.holding[i])), ex')
  /\ UNCHANGED <<fw, run, unitVars, mergeVars, pipelineVars, sorter, assembly>>

\* worker i crashes while it holds a batch
ExtractWorkerError ==
  /\ ex.pc = "ready"
  /\ \E i \in 1..numWorkers :
       /\ ex.alive[i] /\ ex.holding[i] # <<>>
       /\ ex' = OnWorkerError(ex, i)
       /\ writer' = StreamsAfter(writer, ex')
  /\ UNCHANGED <<fw, run, unitVars, mergeVars, pipelineVars, sorter, assembly>>

ExtractNext ==
  \/ ExtractBegin \/ ExtractData \/ ExtractIdLine \/ ExtractEnd
  \/ ExtractWorkerMessage \/ ExtractWorkerError

SpecExtract == ExtractInit /\ [][ExtractNext]_vars

\* the event loop delivers every event that is due: the data and the end of a
\* flowing stream, the answer of a worker that holds a batch.  A crash may
\* happen or not
FairSpecExtract ==
  /\ SpecExtract
  /\ WF_vars(ExtractBegin) /\ WF_vars(ExtractData) /\ WF_vars(ExtractIdLine)
  /\ WF_vars(ExtractEnd) /\ WF_vars(ExtractWorkerMessage)

\* the extraction when every worker answers the batches it is given, on an
\* empty file, on files of one and two games and on a file long enough for a
\* pause: the batches the workers hold, a full queue and the game being read
PausingFileGames == numWorkers * fenBatchSize + maxQueueSize * fenBatchSize + 1

ExtractAnsweredInit ==
  /\ \E games \in {0, 1, 2, PausingFileGames} : ex = NewExtraction(games)
  /\ writer = NewChunkWriter
  /\ FenWorkerIdle /\ RunIdle /\ UnitsIdle
  /\ MergeTaskIdle /\ PipelineIdle /\ SorterIdle /\ AssemblyIdle

ExtractNextAnswered ==
  \/ ExtractBegin \/ ExtractData \/ ExtractIdLine \/ ExtractEnd
  \/ ExtractWorkerMessage

FairSpecExtractAnswered ==
  /\ ExtractAnsweredInit /\ [][ExtractNextAnswered]_vars
  /\ WF_vars(ExtractBegin) /\ WF_vars(ExtractData) /\ WF_vars(ExtractIdLine)
  /\ WF_vars(ExtractEnd) /\ WF_vars(ExtractWorkerMessage)


\* ------------------------- the merge loops of a one-phase run, line by line
\* the sorted chunks of these runs
MergeLoopChunks ==
  {<<ChunkLine("d4fen", "1-0"), ChunkLine("e4fen", "1/2-1/2")>>,
   <<ChunkLine("e4fen", "1-0"), ChunkLine("e4fen", "1-0")>>,
   <<ChunkLine("c4fen", "0-1")>>}

\* the running task that the merge worker mw works on
LeastActive(m) == CHOOSE t \in m.activeWorkers : \A u \in m.activeWorkers : t <= u

\* Phase 1 of multiPhaseKWayMerge has started over at most chunksPerMerge^2
\* sorted chunks, so that no second phase is needed; mw is the worker of the
\* first task (merge-worker.js, the 'message' handler calling kWayMergeToSingleFile)
MergeLoopsInit ==
  /\ \E n \in 1..Min(MaxLoopChunks, chunksPerMerge * chunksPerMerge) :
       \E l \in [1..n -> MergeLoopChunks] :
         /\ mp = StartPhase(NewMultiPhase(l, TRUE))
         /\ inputFiles = mp.mergeTasks[LeastActive(mp)].batch
         /\ mw = NewMergeWorker(inputFiles, TRUE)
  /\ fm = FinalIdle
  /\ WriterIdle /\ SorterIdle /\ AssemblyIdle /\ StagesIdle

\* The worker has written its file and posts the result; the pool
\* (_onWorkerComplete, lines 64-80) starts the next queued task; mw goes on
\* with the next running task
WorkerTaskComplete ==
  /\ mp.pc = "merging" /\ mw.pc = "done" /\ mp.activeWorkers # {}
  /\ LET t == LeastActive(mp)
         posted == [WorkerComplete(mp, t) EXCEPT !.mergeTasks[t].outputFile = mw.out]
     IN /\ mp' = posted
        /\ IF posted.activeWorkers # {}
           THEN /\ inputFiles' = posted.mergeTasks[LeastActive(posted)].batch
                /\ mw' = NewMergeWorker(inputFiles', posted.mergeTasks[LeastActive(posted)].isFirstPhase)
           ELSE UNCHANGED mergeVars
  /\ UNCHANGED <<stageVars, fm, writer, sorter, assembly>>

MergeLoopsNext ==
  \/ WorkerInitialRead \/ WorkerMergeIteration \/ WorkerWriteLast
  \/ WorkerTaskComplete \/ PhaseEnd \/ FinalStart
  \/ FinalMergeIteration \/ FinalMergeLast \/ FinalReturn \/ FinalThrow

SpecMergeLoops == MergeLoopsInit /\ [][MergeLoopsNext]_vars

\* --------------------------------------------- the merge pipeline with failures
\* a running merge task fails
MergeWorkerFail ==
  /\ mp.pc = "merging"
  /\ \E t \in mp.activeWorkers : mp' = WorkerFail(mp, t)
  /\ UNCHANGED <<stageVars, fm, mergeVars, writer, sorter, assembly>>

\* a task that still runs while the pool is shut down reports its result
AbortingWorkerComplete ==
  /\ mp.pc = "aborting"
  /\ \E t \in mp.activeWorkers : mp' = WorkerComplete(mp, t)
  /\ UNCHANGED <<stageVars, fm, mergeVars, writer, sorter, assembly>>

PoolShutdown ==
  /\ mp.pc = "aborting"
  /\ mp' = shutdown(mp)
  /\ UNCHANGED <<stageVars, fm, mergeVars, writer, sorter, assembly>>

NextWithFailure == Next \/ MergeWorkerFail \/ AbortingWorkerComplete \/ PoolShutdown

SpecMergeFailure == Init /\ [][NextWithFailure]_vars

\* every step but the failure of a task is taken when it is due
FairSpecMergeFailure ==
  /\ Init /\ [][NextWithFailure]_vars
  /\ WF_vars(PhaseStart) /\ WF_vars(PhaseEnd) /\ WF_vars(FinalStart)
  /\ WF_vars(FinalMergeLast) /\ WF_vars(FinalReturn) /\ WF_vars(FinalThrow)
  /\ WF_vars(PoolShutdown)
  /\ ([]<>~MergeWorkerCompleteEnabled \/ []<><<MergeWorkerComplete>>_vars)
  /\ ([]<>~FinalMergeIterationEnabled \/ []<><<FinalMergeIteration>>_vars)


\* ---------------------------------------------------------------------- run()
\* the positions of the input files of the runs
RunInputs == SeqsUpTo(ExtractedPositions, MaxRunPositions)

\* A run without --resume starts on an empty temp directory.  A run with
\* --resume starts on the directory an earlier run on the same input left
\* after the chunk sort: its sorted chunks and nothing else
RunInit ==
  /\ \E input \in RunInputs, resumeMode \in BOOLEAN :
       run = NewRun(resumeMode, input,
                    IF resumeMode THEN RunUntil(NewRun(FALSE, input, {}), "merge").dir
                    ELSE {})
  /\ FenWorkerIdle /\ ExtractIdle /\ UnitsIdle
  /\ MergeTaskIdle /\ PipelineIdle /\ WriterIdle /\ SorterIdle /\ AssemblyIdle

RunExtractionStage ==
  /\ run.pc = "start"
  /\ run' = RunExtraction(run)
  /\ UNCHANGED <<fw, ex, unitVars, mergeVars, pipelineVars, writer, sorter, assembly>>

RunSortStage ==
  /\ run.pc = "sort"
  /\ run' = processAllChunks(run)
  /\ UNCHANGED <<fw, ex, unitVars, mergeVars, pipelineVars, writer, sorter, assembly>>

RunListStage ==
  /\ run.pc = "list"
  /\ run' = getSortedFiles(run)
  /\ UNCHANGED <<fw, ex, unitVars, mergeVars, pipelineVars, writer, sorter, assembly>>

RunMergeStage ==
  /\ run.pc = "merge"
  /\ run' = RunMerge(run)
  /\ UNCHANGED <<fw, ex, unitVars, mergeVars, pipelineVars, writer, sorter, assembly>>

RunAssemblyStage ==
  /\ run.pc = "sort10"
  /\ run' = RunAssembly(run)
  /\ UNCHANGED <<fw, ex, unitVars, mergeVars, pipelineVars, writer, sorter, assembly>>

RunCleanupStage ==
  /\ run.pc = "cleanup"
  /\ run' = RunCleanup(run)
  /\ UNCHANGED <<fw, ex, unitVars, mergeVars, pipelineVars, writer, sorter, assembly>>

RunCatchStage ==
  /\ run.pc = "thrown"
  /\ run' = RunCatch(run)
  /\ UNCHANGED <<fw, ex, unitVars, mergeVars, pipelineVars, writer, sorter, assembly>>

RunNext ==
  \/ RunExtractionStage \/ RunSortStage \/ RunListStage
  \/ RunMergeStage \/ RunAssemblyStage \/ RunCleanupStage \/ RunCatchStage

SpecRun == RunInit /\ [][RunNext]_vars

\* run() when a call of the file system can fail: a stage throws before it
\* has changed anything, the chunk sort also after it has sorted some of the
\* chunks
RunStageThrows ==
  /\ run.pc \in {"start", "list", "merge", "sort10", "cleanup"}
  /\ run' = Throw(run)
  /\ UNCHANGED <<fw, ex, unitVars, mergeVars, pipelineVars, writer, sorter, assembly>>

RunSortThrows ==
  /\ run.pc = "sort"
  /\ \E k \in 0..Len(UnsortedIndices(run.dir)) :
       run' = Throw(SortChunks(run, SubSeq(UnsortedIndices(run.dir), 1, k)))
  /\ UNCHANGED <<fw, ex, unitVars, mergeVars, pipelineVars, writer, sorter, assembly>>

RunNextFailing == RunNext \/ RunStageThrows \/ RunSortThrows

SpecRunFailing == RunInit /\ [][RunNextFailing]_vars


\* ------------------------------------------------------------ normalizeFen
\* the FENs chess.js prints, by their six fields: placement, side to move,
\* castling rights, en-passant square, halfmove clock, fullmove number
FenTexts ==
  {<<p, s, c, e, h, m>> : p \in {"start", "e4"}, s \in {"w", "b"},
                          c \in {"KQkq", "-"}, e \in {"-", "e3"},
                          h \in 0..MaxClock, m \in 1..MaxMove}

NormalizeInit ==
  /\ \E f \in FenTexts, g \in FenTexts : nf = NewNormalize(f, g)
  /\ StreamsIdle /\ AuxIdle /\ FenWorkerIdle /\ ExtractIdle /\ RunIdle
  /\ MergeTaskIdle /\ PipelineIdle /\ WriterIdle /\ SorterIdle /\ AssemblyIdle

NormalizeCall ==
  /\ nf.pc = "input"
  /\ nf' = Normalize(nf)
  /\ UNCHANGED <<cs, auxVars, fw, ex, run, mergeVars, pipelineVars, writer, sorter, assembly>>

NormalizeNext == NormalizeCall

SpecNormalize == NormalizeInit /\ [][NormalizeNext]_vars


\* -------------------------------------- the chunk write streams and the sorter
StreamsInit ==
  /\ cs = NewChunkStreams
  /\ NormalizeIdle /\ AuxIdle /\ FenWorkerIdle /\ ExtractIdle /\ RunIdle
  /\ MergeTaskIdle /\ PipelineIdle /\ WriterIdle /\ SorterIdle /\ AssemblyIdle

StreamsOpen ==
  /\ cs.pc = "new"
  /\ cs' = OpenFirstChunk(cs)
  /\ UNCHANGED <<nf, auxVars, fw, ex, run, mergeVars, pipelineVars, writer, sorter, assembly>>

\* a worker message (lines 286-292)
StreamsWrite ==
  /\ cs.pc = "open"
  /\ \E positions \in SeqsUpTo(ExtractedPositions, MaxStreamBatch) :
       /\ positions # <<>>
       /\ cs.w.positionsProcessed + Len(positions) <= MaxStreamPositions
       /\ cs' = WriteToStreams(cs, positions)
  /\ UNCHANGED <<nf, auxVars, fw, ex, run, mergeVars, pipelineVars, writer, sorter, assembly>>

StreamsFlush ==
  /\ cs.pc \in {"open", "sorting"}
  /\ \E i \in DOMAIN cs.flushed :
       /\ cs.flushed[i] < Len(cs.w.chunks[i])
       /\ cs.reads[i] = <<>>
       /\ cs' = FlushLine(cs, i)
  /\ UNCHANGED <<nf, auxVars, fw, ex, run, mergeVars, pipelineVars, writer, sorter, assembly>>

StreamsFinish ==
  /\ cs.pc \in {"open", "sorting"}
  /\ \E i \in DOMAIN cs.flushed :
       /\ cs.ended[i] /\ ~cs.finished[i]
       /\ cs.flushed[i] = Len(cs.w.chunks[i])
       /\ cs.reads[i] = <<>>
       /\ cs' = EmitFinish(cs, i)
  /\ UNCHANGED <<nf, auxVars, fw, ex, run, mergeVars, pipelineVars, writer, sorter, assembly>>

StreamsEnd ==
  /\ cs.pc = "open"
  /\ cs' = EndAndResolve(cs)
  /\ UNCHANGED <<nf, auxVars, fw, ex, run, mergeVars, pipelineVars, writer, sorter, assembly>>

StreamsSort ==
  /\ cs.pc = "sorting"
  /\ \E i \in DOMAIN cs.reads :
       /\ InCurrentBatch(cs, i)
       /\ cs' = ReadChunk(cs, i)
  /\ UNCHANGED <<nf, auxVars, fw, ex, run, mergeVars, pipelineVars, writer, sorter, assembly>>

StreamsNext ==
  \/ StreamsOpen \/ StreamsWrite \/ StreamsFlush \/ StreamsFinish
  \/ StreamsEnd \/ StreamsSort

SpecStreams == StreamsInit /\ [][StreamsNext]_vars


\* ------------------------------------------------------ the sort of all chunks
\* the chunk files the extraction can leave: chunk_0.tmp may be empty
SortAllChunkFiles ==
  {<<>>,
   <<ChunkLine("e4fen", "1-0"), ChunkLine("d4fen", "0-1")>>,
   <<ChunkLine("d4fen", "1/2-1/2")>>}

SortAllInit ==
  /\ \E n \in 0..MaxSortChunks :
       \E chunks \in [1..n -> SortAllChunkFiles] : sa = NewSortAll(chunks)
  /\ nf = NewNormalize(<<>>, <<>>) /\ cs = NewChunkStreams /\ LineReaderIdle
  /\ FenWorkerIdle /\ ExtractIdle /\ RunIdle
  /\ MergeTaskIdle /\ PipelineIdle /\ WriterIdle /\ SorterIdle /\ AssemblyIdle

SortAllList ==
  /\ sa.pc = "start"
  /\ sa' = ListChunkFiles(sa)
  /\ UNCHANGED <<lr, nf, cs, fw, ex, run, mergeVars, pipelineVars, writer, sorter, assembly>>

SortAllStartBatch ==
  /\ sa.pc = "loop"
  /\ sa' = StartSortBatch(sa)
  /\ UNCHANGED <<lr, nf, cs, fw, ex, run, mergeVars, pipelineVars, writer, sorter, assembly>>

SortAllLine ==
  /\ sa.pc = "sorting"
  /\ \E k \in DOMAIN sa.jobs :
       /\ sa.jobs[k].pc = "reading" /\ sa.jobs[k].unread # <<>>
       /\ sa' = SortJobLine(sa, k)
  /\ UNCHANGED <<lr, nf, cs, fw, ex, run, mergeVars, pipelineVars, writer, sorter, assembly>>

SortAllClose ==
  /\ sa.pc = "sorting"
  /\ \E k \in DOMAIN sa.jobs :
       /\ sa.jobs[k].pc = "reading" /\ sa.jobs[k].unread = <<>>
       /\ sa' = SortJobClose(sa, k)
  /\ UNCHANGED <<lr, nf, cs, fw, ex, run, mergeVars, pipelineVars, writer, sorter, assembly>>

SortAllFlush ==
  /\ sa.pc = "sorting"
  /\ \E k \in DOMAIN sa.jobs :
       /\ sa.jobs[k].pc = "writing" /\ sa.flushed[k] < Len(sa.jobs[k].sortedFile)
       /\ sa' = SortJobFlush(sa, k)
  /\ UNCHANGED <<lr, nf, cs, fw, ex, run, mergeVars, pipelineVars, writer, sorter, assembly>>

\* 'finish': every line of the sorted file is on disk
SortAllFinish ==
  /\ sa.pc = "sorting"
  /\ \E k \in DOMAIN sa.jobs :
       /\ sa.jobs[k].pc = "writing" /\ sa.flushed[k] = Len(sa.jobs[k].sortedFile)
       /\ sa' = SortJobFinish(sa, k)
  /\ UNCHANGED <<lr, nf, cs, fw, ex, run, mergeVars, pipelineVars, writer, sorter, assembly>>

SortAllEndBatch ==
  /\ sa.pc = "sorting"
  /\ \A k \in DOMAIN sa.jobs : InSortBatch(sa, k) => sa.jobs[k].pc = "resolved"
  /\ sa' = EndSortBatch(sa)
  /\ UNCHANGED <<lr, nf, cs, fw, ex, run, mergeVars, pipelineVars, writer, sorter, assembly>>

\* the process is killed: the files stay as they are
SortAllCrash ==
  /\ sa.pc \in {"start", "loop", "sorting"}
  /\ sa' = [sa EXCEPT !.pc = "crashed"]
  /\ UNCHANGED <<lr, nf, cs, fw, ex, run, mergeVars, pipelineVars, writer, sorter, assembly>>

SortAllNext ==
  \/ SortAllList \/ SortAllStartBatch \/ SortAllLine \/ SortAllClose
  \/ SortAllFlush \/ SortAllFinish \/ SortAllEndBatch \/ SortAllCrash

SpecSortAll == SortAllInit /\ [][SortAllNext]_vars


\* ------------------------------------------- run() after an earlier failed run
\* the input of the earlier run: MaxRunPositions positions
EarlierInput ==
  [i \in 1..MaxRunPositions |-> [fen |-> "e4fen", result |-> "1-0", gameId |-> "g1"]]

\* the temp directories a run without --resume can start on: an empty one, and
\* the one an earlier run on EarlierInput left when it failed after the chunk
\* sort (the catch of run() deletes nothing)
LeftByEarlierRun ==
  {{}, RunCatch(Throw(RunUntil(NewRun(FALSE, EarlierInput, {}), "merge"))).dir}

RunAgainInit ==
  /\ \E input \in RunInputs, dir \in LeftByEarlierRun : run = NewRun(FALSE, input, dir)
  /\ FenWorkerIdle /\ ExtractIdle /\ UnitsIdle
  /\ MergeTaskIdle /\ PipelineIdle /\ WriterIdle /\ SorterIdle /\ AssemblyIdle

SpecRunAgain == RunAgainInit /\ [][RunNext]_vars


\* ------------------------------------------------ line readers, block by block
\* the files: every text of up to MaxFileChars characters, with blank lines,
\* lines between spaces, and with or without a final newline
FileChars == {"a", Space, Newline}
FileTexts == SeqsUpTo(FileChars, MaxFileChars)

LineReaderInit ==
  /\ \E kind \in {"batch", "line"}, file \in FileTexts : lr = NewLineReader(kind, file)
  /\ SortAllIdle /\ NormalizeIdle /\ StreamsIdle
  /\ FenWorkerIdle /\ ExtractIdle /\ RunIdle
  /\ MergeTaskIdle /\ PipelineIdle /\ WriterIdle /\ SorterIdle /\ AssemblyIdle

ReaderFirstRead ==
  /\ lr.pc = "new" /\ lr.kind \in {"batch", "line"}
  /\ lr' = FirstRead(lr)
  /\ UNCHANGED <<sa, nf, cs, fw, ex, run, mergeVars, pipelineVars, writer, sorter, assembly>>

ReaderWorkerLoopHead ==
  /\ lr.pc = "loop" /\ lr.kind = "batch"
  /\ lr' = WorkerLoopHead(lr)
  /\ UNCHANGED <<sa, nf, cs, fw, ex, run, mergeVars, pipelineVars, writer, sorter, assembly>>

ReaderWorkerTakeLine ==
  /\ lr.pc = "reloaded"
  /\ lr' = WorkerTakeLine(lr)
  /\ UNCHANGED <<sa, nf, cs, fw, ex, run, mergeVars, pipelineVars, writer, sorter, assembly>>

ReaderFinalTakeLine ==
  /\ lr.pc = "loop" /\ lr.kind = "line"
  /\ lr' = FinalTakeLine(lr)
  /\ UNCHANGED <<sa, nf, cs, fw, ex, run, mergeVars, pipelineVars, writer, sorter, assembly>>

\* a block of any length is read from the disk; the stream starts to load
\* with the first read()
ReaderStreamLoad ==
  /\ lr.kind \in {"batch", "line"} /\ lr.pc # "new" /\ lr.unloaded # <<>>
  /\ \E n \in 1..Len(lr.unloaded) : lr' = StreamLoad(lr, n)
  /\ UNCHANGED <<sa, nf, cs, fw, ex, run, mergeVars, pipelineVars, writer, sorter, assembly>>

ReaderStreamEof ==
  /\ lr.kind \in {"batch", "line"} /\ lr.pc # "new" /\ lr.unloaded = <<>> /\ ~lr.eof
  /\ lr' = StreamEof(lr)
  /\ UNCHANGED <<sa, nf, cs, fw, ex, run, mergeVars, pipelineVars, writer, sorter, assembly>>

\* 'readable' is emitted for data that read() has not returned
ReaderOnReadable ==
  /\ lr.pc = "waiting" /\ lr.internal # <<>>
  /\ lr' = onReadable(lr)
  /\ UNCHANGED <<sa, nf, cs, fw, ex, run, mergeVars, pipelineVars, writer, sorter, assembly>>

\* 'end' is emitted once, when read() has returned all the data of the file
ReaderOnEnd ==
  /\ lr.eof /\ lr.internal = <<>> /\ ~lr.ended
  /\ lr' = onEnd(lr)
  /\ UNCHANGED <<sa, nf, cs, fw, ex, run, mergeVars, pipelineVars, writer, sorter, assembly>>

ReaderRetry ==
  /\ lr.pc = "retry"
  /\ lr' = RetryRead(lr)
  /\ UNCHANGED <<sa, nf, cs, fw, ex, run, mergeVars, pipelineVars, writer, sorter, assembly>>

LineReaderNext ==
  \/ ReaderFirstRead \/ ReaderWorkerLoopHead \/ ReaderWorkerTakeLine \/ ReaderFinalTakeLine
  \/ ReaderStreamLoad \/ ReaderStreamEof \/ ReaderOnReadable \/ ReaderOnEnd \/ ReaderRetry

SpecLineReader == LineReaderInit /\ [][LineReaderNext]_vars


\* ---------------------------------------------- reading files (properties)
RECURSIVE Flatten(_)
Flatten(files) == IF files = <<>> THEN <<>> ELSE files[1] \o Flatten(Tail(files))

RECURSIVE SumSeq(_)
SumSeq(seq) == IF seq = <<>> THEN 0 ELSE seq[1] + SumSeq(Tail(seq))

\* the FEN a line starts with, in a chunk line and in an aggregate line
LineKey(line) == line[1].s
LinesOfKey(lines, k) == SelectSeq(lines, LAMBDA line : LineKey(line) = k)
KeysOf(lines) == {LineKey(lines[i]) : i \in DOMAIN lines}

\* the number in TAB-separated field f of a line
FieldNum(line, f) == Split(line, Tab)[f][1].n
IsNumField(line, f) ==
  LET parts == Split(line, Tab)
  IN f <= Len(parts) /\ Len(parts[f]) = 1 /\ parts[f][1].t = "num"

\* the fields of the lines a merge task writes: FEN, copied text, occurrence,
\* white, black, draw
WorkerOcc(line) == FieldNum(line, 3)

\* the occurrences a line of the task's input stands for
InputOcc(line) == IF mw.isFirstPhase THEN 1 ELSE WorkerOcc(line)
TotalOcc(lines, k) ==
  LET mine == LinesOfKey(lines, k)
  IN SumSeq([i \in 1..Len(mine) |-> InputOcc(mine[i])])

\* the lines of the task's input that no iteration has consumed yet
Unconsumed ==
  Flatten([i \in DOMAIN mw.readers |-> mw.readers[i].lineQueue \o mw.readers[i].rest])

\* ------------------------------------------------------------------- C2
\* C2: in one merge task over sorted inputs, every key of the input has exactly
\* one output record and its occurrence is the sum of the key's occurrences
\* over all input files (phase 1: its number of lines, later phases: the sum of
\* the occurrence fields); at every moment each input line is either still
\* unread, or counted once in the running aggregate or in a written record.
C2_OccurrenceIsSum ==
  /\ \A k \in Keys :
       LET written == LinesOfKey(mw.out, k)
           running == IF mw.currentFen # NULL /\ mw.currentFen.hash = <<Fen(k)>>
                         /\ mw.pc # "done"
                      THEN mw.currentStats.occurrence ELSE 0
       IN SumSeq([i \in 1..Len(written) |-> WorkerOcc(written[i])]) + running
            + TotalOcc(Unconsumed, k) = TotalOcc(Flatten(inputFiles), k)
  /\ mw.pc = "done" =>
       /\ Unconsumed = <<>>
       /\ \A k \in Keys :
            LET written == LinesOfKey(mw.out, k)
            IN IF k \in KeysOf(Flatten(inputFiles))
               THEN /\ Len(written) = 1
                    /\ WorkerOcc(written[1]) = TotalOcc(Flatten(inputFiles), k)
               ELSE written = <<>>

\* a later-phase task has finished in which one key came from two input files,
\* with occurrence 2 in one and 1 in the other
C2_Witness ==
  /\ mw.pc = "done" /\ ~mw.isFirstPhase /\ Len(inputFiles) = 2
  /\ \E k \in Keys :
       /\ \E i \in DOMAIN inputFiles[1] :
            LineKey(inputFiles[1][i]) = k /\ WorkerOcc(inputFiles[1][i]) = 2
       /\ \E i \in DOMAIN inputFiles[2] :
            LineKey(inputFiles[2][i]) = k /\ WorkerOcc(inputFiles[2][i]) = 1
       /\ \E i \in DOMAIN mw.out : LineKey(mw.out[i]) = k /\ WorkerOcc(mw.out[i]) = 3

\* ------------------------------------------------------------------- C6
\* C6: the output of a merge task over sorted inputs is sorted with strictly
\* increasing keys, and once the task is done every key of the input is in it
\* exactly once.
C6_OutputStrictlySorted ==
  /\ \A i \in 1..(Len(mw.out) - 1) :
       FenRank(LineKey(mw.out[i])) < FenRank(LineKey(mw.out[i + 1]))
  /\ mw.pc = "done" => KeysOf(mw.out) = KeysOf(Flatten(inputFiles))

\* a task is done whose first input file starts with the greater key and whose
\* second input file starts with the smaller one, both keys written
C6_Witness ==
  /\ mw.pc = "done" /\ Len(inputFiles) = 2 /\ Len(mw.out) = 2
  /\ inputFiles[1] # <<>> /\ inputFiles[2] # <<>>
  /\ FenRank(LineKey(inputFiles[1][1])) > FenRank(LineKey(inputFiles[2][1]))

\* ------------------------------------------------------------------- C4
\* the number of chunk lines with FEN k and result r
CountResult(lines, k, r) ==
  Len(SelectSeq(lines, LAMBDA line : LineKey(line) = k /\ line[Len(line)] = Res(r)))

\* C4: in a phase-1 merge each chunk line fen|result adds 1 to the occurrence of
\* its FEN and 1 to exactly one of white (1-0), black (0-1), draw (1/2-1/2): the
\* record written for a FEN counts its lines, and its lines of each result.
C4_PhaseOneTallies ==
  (mw.pc = "done" /\ mw.isFirstPhase) =>
    \A i \in DOMAIN mw.out :
      LET k == LineKey(mw.out[i])
          lines == Flatten(inputFiles)
      IN /\ FieldNum(mw.out[i], 3) = Len(LinesOfKey(lines, k))
         /\ FieldNum(mw.out[i], 4) = CountResult(lines, k, "1-0")
         /\ FieldNum(mw.out[i], 5) = CountResult(lines, k, "0-1")
         /\ FieldNum(mw.out[i], 6) = CountResult(lines, k, "1/2-1/2")

\* ------------------------------------------------------------------ C10
\* C10: every line a merge task writes has exactly five TAB-separated fields,
\* the FEN of the merged lines and then four numbers (occurrence, white, black,
\* draw).
C10_FiveFieldLines ==
  \A i \in DOMAIN mw.out :
    LET parts == Split(mw.out[i], Tab)
    IN /\ Len(parts) = 5
       /\ Len(parts[1]) = 1 /\ parts[1][1].t = "fen"
       /\ \A f \in 2..5 : IsNumField(mw.out[i], f)

\* -------------------------------------------------- the pipeline's records
\* the records in the partition files, bucket after bucket
BucketRecords == Flatten(fm.partitions)

\* the records merge tasks have written: the files of the completed tasks of
\* the running phase and the files of the phase before
PhaseRecords ==
  Flatten([t \in 1..Len(mp.mergeTasks) |-> mp.mergeTasks[t].outputFile])
    \o (IF mp.phaseNumber > 1 THEN Flatten(mp.currentFiles) ELSE <<>>)

\* ------------------------------------------------------------------- C1
\* C1: multiPhaseKWayMerge over sorted chunks of fen|result lines ends normally
\* and the partition files then hold exactly one record per distinct FEN of the
\* chunks, with occurrence = the number of chunk lines with that FEN and
\* white / black / draw = the numbers of those lines with result 1-0 / 0-1 /
\* 1/2-1/2, whatever the number of phases and the batches.
C1_EndToEndAggregation ==
  mp.pc \in {"done", "failed"} =>
    /\ mp.pc = "done"
    /\ \A k \in Keys :
         LET recs == LinesOfKey(BucketRecords, k)
             lines == Flatten(mp.sortedFiles)
         IN IF k \in KeysOf(lines)
            THEN /\ Len(recs) = 1
                 /\ FieldNum(recs[1], 2) = Len(LinesOfKey(lines, k))
                 /\ FieldNum(recs[1], 3) = CountResult(lines, k, "1-0")
                 /\ FieldNum(recs[1], 4) = CountResult(lines, k, "0-1")
                 /\ FieldNum(recs[1], 5) = CountResult(lines, k, "1/2-1/2")
            ELSE recs = <<>>

\* ------------------------------------------------------------------- C3
\* C3: every record written by a merge task (fields occurrence, white, black,
\* draw after the FEN and the copied text) and every record written by the final
\* merge (fields occurrence, white, black, draw after the FEN) has
\* occurrence = white + black + draw and occurrence >= 1.
C3_OccurrenceIsTallySum ==
  /\ \A i \in DOMAIN PhaseRecords :
       LET line == PhaseRecords[i]
       IN /\ FieldNum(line, 3) = FieldNum(line, 4) + FieldNum(line, 5) + FieldNum(line, 6)
          /\ FieldNum(line, 3) >= 1
  /\ \A i \in DOMAIN BucketRecords :
       LET line == BucketRecords[i]
       IN /\ FieldNum(line, 2) = FieldNum(line, 3) + FieldNum(line, 4) + FieldNum(line, 5)
          /\ FieldNum(line, 2) >= 1

\* ------------------------------------------------------------------- C5
\* C5: every record the final merge completes is written to exactly one
\* partition file, the one of its occurrence (i for 1..9, 10plus from 10 on): the
\* final merge never fails to write a record, a record in file b has the
\* occurrence of b, no FEN is in two records, and at the end every FEN of the
\* merged files has its record.
C5_BucketPartition ==
  /\ fm.pc # "failed"
  /\ \A b \in Buckets : \A i \in DOMAIN fm.partitions[b] :
       PartitionKey(FieldNum(fm.partitions[b][i], 2)) = b
  /\ \A k \in Keys : Len(LinesOfKey(BucketRecords, k)) <= 1
  /\ fm.pc = "done" => KeysOf(BucketRecords) = KeysOf(Flatten(mp.currentFiles))

\* ------------------------------------------------------------------- C7
\* C7: after any sequence of writePositionsToChunk calls that passed n positions,
\* the chunk files are chunk_0 .. chunk_k with k = chunkIndex, the chunks before
\* chunk k hold chunkSize lines each, the open chunk k holds n - k * chunkSize
\* lines, between 0 and chunkSize and at least one as soon as n > 0 (rotation
\* happens only when a position arrives for a full chunk), and the chunks read
\* one after the other are the n positions in the order they were passed.
C7_RotationInvariant ==
  writer.pc # "new" =>
    LET n == Len(writer.received)
        k == writer.chunkIndex
    IN /\ Len(writer.chunks) = k + 1
       /\ \A i \in 1..k : Len(writer.chunks[i]) = chunkSize
       /\ Len(writer.chunks[k + 1]) = n - k * chunkSize
       /\ writer.positionsInCurrentChunk = n - k * chunkSize
       /\ 0 <= n - k * chunkSize /\ n - k * chunkSize <= chunkSize
       /\ n > 0 => n - k * chunkSize >= 1
       /\ writer.positionsProcessed = n
       /\ Flatten(writer.chunks) =
            [i \in 1..n |-> ChunkLine(writer.received[i].fen, writer.received[i].result)]

\* 2 * chunkSize + 1 positions were written, in batches one of which filled a
\* chunk exactly: two full chunks and an open chunk of one line
C7_Witness ==
  /\ writer.pc = "closed"
  /\ Len(writer.received) = 2 * chunkSize + 1
  /\ Len(writer.chunks) = 3
  /\ Len(writer.chunks[1]) = chunkSize /\ Len(writer.chunks[2]) = chunkSize
  /\ Len(writer.chunks[3]) = 1

\* ------------------------------------------------------------------- C8
\* the number of times x is a line of lines
CountLine(lines, x) == Len(SelectSeq(lines, LAMBDA line : line = x))

\* C8: the sorted chunk processSingleChunk writes has its lines in
\* non-decreasing order of the FEN before the '|', and holds every non-blank
\* line of the chunk as often as the chunk does and no other line.
C8_SortInvariant ==
  sorter.sortedExists =>
    /\ \A i \in 1..(Len(sorter.sortedFile) - 1) :
         FenRank(LineKey(sorter.sortedFile[i])) <= FenRank(LineKey(sorter.sortedFile[i + 1]))
    /\ \A x \in ChunkFileLines :
         CountLine(sorter.sortedFile, x) =
           IF x = BlankLine THEN 0 ELSE CountLine(sorter.chunkFile, x)
    /\ Len(sorter.sortedFile) = Len(NonBlank(sorter.chunkFile))

\* a chunk with a blank line whose lines were not in order has been sorted and
\* deleted
C8_Witness ==
  /\ sorter.pc = "resolved" /\ ~sorter.chunkExists
  /\ \E i \in DOMAIN sorter.chunkFile : sorter.chunkFile[i] = BlankLine
  /\ Len(sorter.sortedFile) >= 2
  /\ NonBlank(sorter.chunkFile) # sorter.sortedFile

\* ------------------------------------------------------------------- C9
\* the records of the partition files from..to
RECURSIVE CountInPartitions(_, _, _)
CountInPartitions(x, from, to) ==
  IF from > to THEN 0
  ELSE CountLine(assembly.partitions[from], x) + CountInPartitions(x, from + 1, to)

\* C9: once the three files are written, each starts with the header, which it
\* holds once; after it fens-all.tsv holds the records of the partition files
\* 1..9 and 10plus, fens-withoutone.tsv those of 2..9 and 10plus (occurrence
\* >= 2), fens-onlyrecurrent.tsv those of 10plus (occurrence >= 10), each record
\* once and nothing else.
C9_OutputAssembly ==
  assembly.pc = "done" =>
    LET all == assembly.all
        withoutone == assembly.withoutone
        onlyrecurrent == assembly.onlyrecurrent
        records == {x \in UNION {{f[i] : i \in DOMAIN f} :
                                  f \in {Flatten(assembly.partitions), all,
                                         withoutone, onlyrecurrent}} : x # Header}
    IN /\ \A f \in {all, withoutone, onlyrecurrent} :
            f # <<>> /\ f[1] = Header /\ CountLine(f, Header) = 1
       /\ \A x \in records :
            /\ CountLine(all, x) = CountInPartitions(x, 1, TenPlus)
            /\ CountLine(withoutone, x) = CountInPartitions(x, 2, TenPlus)
            /\ CountLine(onlyrecurrent, x) = CountInPartitions(x, TenPlus, TenPlus)
            /\ CountLine(all, x) <= 1
       /\ \A i \in 2..Len(withoutone) : FieldNum(withoutone[i], 2) >= 2
       /\ \A i \in 2..Len(onlyrecurrent) : FieldNum(onlyrecurrent[i], 2) >= TenPlus
       /\ Len(all) = 1 + Len(Flatten(assembly.partitions))

\* the files are written from partition files with a record of occurrence 1, a
\* record of an occurrence in 2..9 and a record of an occurrence >= 10
C9_Witness ==
  /\ assembly.pc = "done"
  /\ assembly.partitions[1] # <<>>
  /\ assembly.partitions[TenPlus] # <<>>
  /\ \E b \in 2..(TenPlus - 1) : assembly.partitions[b] # <<>>

\* ------------------------------------------------------------------ C11
\* a line fen<TAB>occurrence<TAB>white<TAB>black<TAB>draw
IsAggregateLine(line) ==
  LET parts == Split(line, Tab)
  IN /\ Len(parts) = 5
     /\ Len(parts[1]) = 1 /\ parts[1][1].t = "fen"
     /\ \A f \in 2..5 : IsNumField(line, f)

\* the sum of field f over the lines with FEN k
SumField(lines, k, f) ==
  LET mine == LinesOfKey(lines, k)
  IN SumSeq([i \in 1..Len(mine) |-> FieldNum(mine[i], f)])

\* C11: the input lines of a later-phase merge are aggregate lines
\* fen, occurrence, white, black, draw, and the record written for a key is such
\* a line too, with the key as FEN and each of occurrence, white, black, draw
\* the sum of that field over the input lines of the key.
C11_LaterPhaseSums ==
  (~mw.isFirstPhase /\ mw.pc = "done") =>
    /\ \A i \in DOMAIN Flatten(inputFiles) : IsAggregateLine(Flatten(inputFiles)[i])
    /\ \A i \in DOMAIN mw.out :
         /\ IsAggregateLine(mw.out[i])
         /\ \A f \in 2..5 :
              FieldNum(mw.out[i], f) =
                SumField(Flatten(inputFiles), LineKey(mw.out[i]), f)

\* ------------------------------------------------------------------ C12
\* The merge pipeline when every handler that can run does run.  The runs are
\* those over chunks of one and the same line: the phase loop looks at the number
\* of files only.
FinalInvoked == fm.pc = "idle" /\ fm'.pc # "idle"

\* C12: phase 1 is executed whatever the number of sorted chunks; after a phase
\* another phase is started if and only if more than chunksPerMerge files are
\* left, otherwise the final merge is called; a phase ends only when all its
\* merge tasks have completed; the final merge is called with at most
\* chunksPerMerge files, it is called at most once, and it is eventually called.
C12_PhaseReducer ==
  /\ [](fm.pc # "idle" =>
          /\ mp.pc \in {"final", "done", "failed"}
          /\ mp.phaseNumber >= 2
          /\ Len(mp.currentFiles) <= chunksPerMerge)
  /\ [][/\ (mp.pc = "loop" /\ mp.phaseNumber = 1) => mp'.pc = "merging"
        /\ (mp.pc = "loop" /\ mp.phaseNumber > 1) =>
             /\ mp'.pc = "merging" <=> Len(mp.currentFiles) > chunksPerMerge
             /\ mp'.pc = "final" <=> Len(mp.currentFiles) <= chunksPerMerge
        /\ (mp.pc = "merging" /\ mp'.pc # "merging") =>
             /\ \A t \in DOMAIN mp.mergeTasks : mp.mergeTasks[t].completed
             /\ mp.activeWorkers = {} /\ mp.queue = <<>>
             /\ mp'.phaseNumber = mp.phaseNumber + 1
        /\ FinalInvoked => (mp.pc = "loop" /\ mp.mergeTasks = <<>>)
        /\ fm.pc # "idle" => fm'.pc # "idle"]_vars
  /\ <>(fm.pc # "idle")

\* the final merge is running after two phases
C12_Witness ==
  /\ mp.pc = "final" /\ mp.phaseNumber = 3
  /\ Len(mp.sortedFiles) > chunksPerMerge * chunksPerMerge

\* ------------------------------------------------------------------ C15
\* C15: once the final merge has ended, the number of rows over all partition
\* files (1..9 and 10plus) equals positionsWritten and equals the number of
\* distinct FENs of the sorted chunks, which is the number of rows one
\* unpartitioned merge of them writes.
C15_RowCountRoundTrip ==
  mp.pc \in {"done", "failed"} =>
    /\ Len(BucketRecords) = fm.positionsWritten
    /\ Len(BucketRecords) = Cardinality(KeysOf(Flatten(mp.sortedFiles)))

\* ------------------------------------------------------------------ C16
\* a chunk file without blank line whose lines are in non-decreasing order of the
\* FEN before the '|'
SortedByKey(file) ==
  /\ \A i \in DOMAIN file : file[i] # BlankLine
  /\ \A i \in 1..(Len(file) - 1) :
       FenRank(LineKey(file[i])) <= FenRank(LineKey(file[i + 1]))

\* C16: the chunk sort applied to a chunk whose lines are already sorted by FEN
\* writes a file equal to the chunk line for line, lines of the same FEN in the
\* order they had.
C16_SortIdempotent ==
  (sorter.sortedExists /\ SortedByKey(sorter.chunkFile)) =>
    /\ Len(sorter.sortedFile) = Len(sorter.chunkFile)
    /\ \A i \in DOMAIN sorter.chunkFile : sorter.sortedFile[i] = sorter.chunkFile[i]

\* a sorted chunk in which two different lines share their FEN has been sorted
C16_Witness ==
  /\ sorter.pc = "resolved" /\ SortedByKey(sorter.chunkFile)
  /\ \E i \in 1..(Len(sorter.chunkFile) - 1) :
       /\ LineKey(sorter.chunkFile[i]) = LineKey(sorter.chunkFile[i + 1])
       /\ sorter.chunkFile[i] # sorter.chunkFile[i + 1]
  /\ sorter.sortedFile = sorter.chunkFile

\* ------------------------------------------------------------------ C14
\* the replay of the game fails: chess.js cannot load the movetext, or a move
\* is illegal in the position the replay from the standard start has reached
ReplayFails(gameText) == LoadPgnThrows(gameText) \/ gameText.illegalAt > 0

\* C14: a game whose replay fails contributes no position, the batch is
\* answered with success, and a game that replays gives all its positions
\* whatever the other games of the batch are.
C14_FailedReplayYieldsNothing ==
  /\ \A i \in DOMAIN fw.emitted :
       /\ ReplayFails(fw.games[i]) => fw.emitted[i] = <<>>
       /\ (~ReplayFails(fw.games[i]) /\ fw.games[i].result \in Results
             /\ fw.games[i].gameId # "") =>
            Len(fw.emitted[i]) = fw.games[i].plies + 1
  /\ fw.pc = "posted" =>
       /\ fw.message[1].success
       /\ fw.message[1].positions = Flatten(fw.emitted)

\* ------------------------------------------------------------------ C18
\* C18: at every moment of the extraction the batch queue holds at most
\* maxQueueSize batches.
C18_BoundedQueue == Len(ex.batchQueue) <= maxQueueSize

\* ------------------------------------------------------------------ C17
\* C17: a step pauses the stream exactly when the 'data' handler queues a batch
\* while the stream is not paused and the queue has then maxQueueSize batches
\* or more; a step resumes it exactly when it dispatches a batch while the
\* stream is paused and the queue is then shorter than maxQueueSize / 2; no
\* other step changes streamPaused, and the stream flows exactly when
\* streamPaused is false.
C17_BackpressureHysteresis ==
  [][LET enqueue == ex.pc = "data" /\ Len(ex'.enqueued) > Len(ex.enqueued)
         dispatch == Len(ex'.dispatched) > Len(ex.dispatched)
         pausing == /\ enqueue /\ ~ex.streamPaused
                    /\ Len(ex.batchQueue) + 1 >= maxQueueSize
         resuming == /\ dispatch /\ (ex.streamPaused \/ pausing)
                     /\ 2 * Len(ex'.batchQueue) < maxQueueSize
     IN /\ ~(pausing /\ resuming)
        /\ pausing => (ex'.streamPaused /\ ex'.pauses = ex.pauses + 1)
        /\ resuming => (~ex'.streamPaused /\ ex'.resumes = ex.resumes + 1)
        /\ (~pausing /\ ~resuming) =>
             /\ ex'.streamPaused = ex.streamPaused
             /\ ex'.pauses = ex.pauses /\ ex'.resumes = ex.resumes
        /\ ex'.flowing = ~ex'.streamPaused]_vars

\* the stream has been paused with a full queue and resumed later, and the
\* extraction has finished
C17_Witness ==
  /\ ex.pc = "finished"
  /\ ex.pauses >= 1 /\ ex.resumes >= 1
  /\ Len(ex.enqueued) > maxQueueSize

\* ------------------------------------------------------------------ C19
\* the batches of a sequence of batches
BatchesOf(batches) == {batches[i] : i \in DOMAIN batches}

\* C19: after a worker has crashed with a batch, the extraction still
\* finishes, with the positions of every queued batch but the crashed ones
\* written, each once, and no crashed batch dispatched again.
C19_CrashLosesOneBatch ==
  [](ex.crashed # <<>> =>
       <>(/\ ex.pc = "finished"
          /\ BatchesOf(ex.written) = BatchesOf(ex.enqueued) \ BatchesOf(ex.crashed)
          /\ Len(ex.written) = Cardinality(BatchesOf(ex.written))
          /\ Len(ex.dispatched) = Len(ex.enqueued)))

Outcome(r) ==
  [pc |-> r.pc, partitions |-> r.partitions, onlyrecurrent |-> r.onlyrecurrent,
   withoutone |-> r.withoutone, all |-> r.all]

\* C13: a run with --resume on a temp directory that holds only the sorted
\* chunks of an input extracts nothing, sorts no chunk, merges exactly these
\* sorted chunks in the order of their numbers, and ends as a full run on that
\* input ends, with the same partition files and the same output files.
C13_ResumeEquivalence ==
  (run.resumeMode /\ run.pc \in {"done", "failed"}) =>
    LET full == RunUntil(NewRun(FALSE, run.input, {}), "done")
        chunks == WritePositions(InitChunk(NewChunkWriter), run.input).chunks
    IN /\ run.extractions = 0
       /\ run.sorts = <<>>
       /\ run.mergeInput = full.mergeInput
       /\ Len(run.mergeInput) = Len(chunks)
       /\ \A i \in DOMAIN chunks : \A x \in ChunkFileLines :
            CountLine(run.mergeInput[i], x) = CountLine(chunks[i], x)
       /\ full.extractions = 1 /\ Len(full.sorts) = Len(chunks)
       /\ Outcome(run) = Outcome(full)

\* a resumed run on two sorted chunks has ended well and has written records
C13_Witness ==
  /\ run.resumeMode /\ run.pc = "done"
  /\ Len(run.mergeInput) = 2
  /\ Len(run.all) >= 2
  /\ \E b \in Buckets : run.partitions[b] # <<>>

\* ------------------------------------------------------------------ C24
\* C24: normalizeFen keeps the first four fields and writes clock 0 and move
\* number 1; two FENs get the same key exactly when their first four fields
\* are equal, and the key of a key is the key.
C24_NormalizeFen ==
  nf.pc = "normalized" =>
    /\ \A i \in 1..4 : nf.keyF[i] = nf.f[i]
    /\ Len(nf.keyF) = 6 /\ nf.keyF[5] = 0 /\ nf.keyF[6] = 1
    /\ (nf.keyF = nf.keyG) <=> (\A i \in 1..4 : nf.f[i] = nf.g[i])
    /\ nf.again = nf.keyF
    /\ nf.olderF = nf.keyF

C24_Witness ==
  /\ nf.pc = "normalized"
  /\ nf.f # nf.g /\ nf.keyF = nf.keyG
  /\ nf.f[5] # 0 /\ nf.f[6] # 1

\* ------------------------------------------------------------------ C23
\* the game has no ID tag, no result token, the result '*', or the marker
Rejected(gameText) ==
  \/ extractGameId(gameText) = ""
  \/ extractResult(gameText) = ""
  \/ extractResult(gameText) = "*"
  \/ gameText.tcec

\* C23: a game with no ID tag, with no result token, with result '*' or with
\* the marker 'tcec' in its text yields no position.
C23_RejectedGamesEmitNothing ==
  \A i \in DOMAIN fw.emitted : Rejected(fw.games[i]) => fw.emitted[i] = <<>>

\* ------------------------------------------------------------------ C30
\* C30: the chunk sorter reads a chunk file only after its write stream has
\* finished, and the sorted chunk holds as many records as were written to the
\* chunk, the last chunk included.
C30_SortAfterFinish ==
  \A i \in DOMAIN cs.reads :
    cs.reads[i] # <<>> =>
      /\ cs.reads[i][1].finished
      /\ Len(cs.reads[i][1].sortedFile) = Len(cs.w.chunks[i])

\* ------------------------------------------------------------------ C29
\* C29: finishProcessing is called at most once and only when the stream has
\* ended, the batch queue is empty and no task is active; when every
\* dispatched batch is answered, finishProcessing is eventually called after
\* the stream has ended, and a paused stream is eventually resumed.
C29_FinishesExactlyOnce ==
  /\ [](/\ ex.finishCalls <= 1
        /\ ex.finishCalls = 1 =>
             /\ ex.pc = "finished"
             /\ ex.isStreamingComplete /\ ex.ended
             /\ ex.batchQueue = <<>> /\ ex.activeTasks = 0)
  /\ ex.ended ~> ex.finishCalls = 1
  /\ ex.streamPaused ~> ~ex.streamPaused

\* the extraction has finished after a pause, with batches answered after the
\* end of the stream
C29_Witness ==
  /\ ex.pc = "finished" /\ ex.finishCalls = 1
  /\ ex.crashed = <<>>
  /\ ex.pauses >= 1
  /\ Len(ex.written) >= maxQueueSize

\* ------------------------------------------------------------------ C21
\* the sorted chunks of the temp directory
SortedChunksOf(dir) == {f \in dir : IsSortedChunkFile(f)}

\* the sorted chunks the chunk sort leaves for an input: one per chunk the
\* chunk writer cuts the positions into, each with the lines of its chunk
CompleteSortedChunks(input) ==
  LET chunks == WritePositions(InitChunk(NewChunkWriter), input).chunks
  IN /\ Len(run.mergeInput) = Len(chunks)
     /\ Cardinality(SortedChunksOf(run.dir)) = Len(chunks)
     /\ \A i \in DOMAIN chunks :
          /\ \E f \in SortedChunksOf(run.dir) :
               f.index = i - 1 /\ f.lines = run.mergeInput[i]
          /\ Len(run.mergeInput[i]) = Len(chunks[i])

\* C21: the catch of run() changes no file; a step that deletes a sorted chunk
\* is the final cleanup of a run in which every stage succeeded; after a
\* failure of a stage that follows the chunk sort all sorted chunks are there.
C21_TempStateSurvivesFailure ==
  /\ [][/\ run.pc = "thrown" =>
             /\ run'.dir = run.dir /\ run'.partitions = run.partitions
             /\ run'.pc = "failed"
        /\ run'.pc = "thrown" =>
             /\ SortedChunksOf(run.dir) \subseteq SortedChunksOf(run'.dir)
             /\ run.pc # "sort" => run'.dir = run.dir
        /\ ~(SortedChunksOf(run.dir) \subseteq SortedChunksOf(run'.dir)) =>
             /\ run.pc = "cleanup" /\ run'.pc = "done" /\ run.failedAt = ""
             /\ run.all # <<>>]_vars
  /\ []((run.pc = "failed" /\ run.failedAt \in {"merge", "sort10", "cleanup"}) =>
          CompleteSortedChunks(run.input))

\* a run has failed in the assembly, after a merge over two sorted chunks
C21_Witness ==
  /\ run.pc = "failed" /\ run.failedAt = "sort10"
  /\ Cardinality(SortedChunksOf(run.dir)) = 2
  /\ \E b \in Buckets : run.partitions[b] # <<>>

\* ------------------------------------------------------------------ C22
\* the paths of a sequence of paths
PathsOf(paths) == {paths[i] : i \in DOMAIN paths}

\* C22: no two running merge tasks have the same output path, no running
\* task writes to an input path of a running task, and no merge output path is
\* the path of a partition file or of a sorted chunk.
C22_DisjointWriters ==
  /\ \A t \in mp.activeWorkers, u \in mp.activeWorkers :
       /\ t # u => mp.taskPaths[t].outputFile # mp.taskPaths[u].outputFile
       /\ mp.taskPaths[t].outputFile \notin PathsOf(mp.taskPaths[u].batch)
  /\ \A t \in DOMAIN mp.taskPaths :
       /\ mp.taskPaths[t].outputFile \notin {PartitionPath(b) : b \in Buckets}
       /\ mp.taskPaths[t].outputFile \notin
            {SortedChunkPath(i - 1) : i \in DOMAIN mp.sortedFiles}
       /\ Len(mp.taskPaths[t].batch) = Len(mp.mergeTasks[t].batch)

\* two tasks of a second phase run at once, on outputs of the first phase
C22_Witness ==
  /\ mp.pc = "merging" /\ mp.phaseNumber = 2
  /\ Cardinality(mp.activeWorkers) = 2
  /\ \A t \in mp.activeWorkers : PathsOf(mp.taskPaths[t].batch) # {}

\* ------------------------------------------------------------------ C26
\* ceil(n / d), and ceil(n / chunksPerMerge^p)
CeilDiv(n, d) == (n + d - 1) \div d
RECURSIVE Power(_, _)
Power(b, e) == IF e = 0 THEN 1 ELSE b * Power(b, e - 1)
AfterPhases(n, p) == CeilDiv(n, Power(chunksPerMerge, p))

\* the least p >= 1 with ceil(n / chunksPerMerge^p) <= chunksPerMerge
LeastPhases(n) ==
  CHOOSE p \in 1..(n + 1) :
    /\ AfterPhases(n, p) <= chunksPerMerge
    /\ \A q \in 1..(p - 1) : AfterPhases(n, q) > chunksPerMerge

\* C26: a phase over c files leaves ceil(c / chunksPerMerge) files, fewer than
\* c when c > chunksPerMerge; the final merge is eventually called, after the
\* least number p >= 1 of phases with ceil(N / chunksPerMerge^p) <= chunksPerMerge.
C26_ReductionTerminates ==
  /\ [][(mp.pc = "merging" /\ mp'.pc = "loop") =>
          /\ Len(mp'.currentFiles) = CeilDiv(Len(mp.currentFiles), chunksPerMerge)
          /\ Len(mp.currentFiles) > chunksPerMerge =>
               Len(mp'.currentFiles) < Len(mp.currentFiles)]_vars
  /\ [](fm.pc # "idle" => mp.phaseNumber - 1 = LeastPhases(Len(mp.sortedFiles)))
  /\ <>(fm.pc # "idle")

\* the final merge is called after more than one phase, the files of phase 1
\* being more than chunksPerMerge
C26_Witness ==
  /\ fm.pc # "idle" /\ mp.phaseNumber >= 3
  /\ Len(mp.sortedFiles) > chunksPerMerge * chunksPerMerge

\* ------------------------------------------------------------------ C27
RECURSIVE ConcatBatches(_, _)
ConcatBatches(tasks, n) ==
  IF n = 0 THEN <<>> ELSE ConcatBatches(tasks, n - 1) \o tasks[n].batch

\* the tasks of a phase that starts split the files `current` into consecutive
\* groups of chunksPerMerge, the last one of 1..chunksPerMerge
GroupsOf(tasks, current) ==
  /\ ConcatBatches(tasks, Len(tasks)) = current
  /\ \A t \in 1..Len(tasks) :
       /\ Len(tasks[t].batch) \in 1..chunksPerMerge
       /\ t < Len(tasks) => Len(tasks[t].batch) = chunksPerMerge

\* the path `file` is read by exactly one of the tasks
ReadByOneTask(tasks, file) ==
  Cardinality({t \in 1..Len(tasks) :
                 \E i \in 1..Len(tasks[t].batch) : tasks[t].batch[i] = file}) = 1

\* C27: a phase that starts splits the current chunk list into consecutive
\* groups of at most chunksPerMerge chunks, all but the last of exactly
\* chunksPerMerge; every chunk is read by exactly one task; one task per group is
\* handed to the pool; the chunk list of the next phase is the list of the
\* outputs of the tasks, one per group, in the order of the groups.
C27_Grouping ==
  [][/\ (mp.pc = "loop" /\ mp'.pc = "merging") =>
          /\ GroupsOf(mp'.taskPaths, mp.currentPaths)
          /\ GroupsOf(mp'.mergeTasks, mp.currentFiles)
          /\ Len(mp'.mergeTasks) = Len(mp'.taskPaths)
          /\ \A i \in 1..Len(mp.currentPaths) :
               ReadByOneTask(mp'.taskPaths, mp.currentPaths[i])
          /\ mp'.activeWorkers \cup {mp'.queue[i] : i \in 1..Len(mp'.queue)}
               = 1..Len(mp'.mergeTasks)
     /\ (mp.pc = "merging" /\ mp'.pc = "loop") =>
          /\ Len(mp'.currentPaths) = Len(mp.taskPaths)
          /\ Len(mp'.currentFiles) = Len(mp.mergeTasks)
          /\ \A t \in 1..Len(mp.taskPaths) :
               /\ mp'.currentPaths[t] = mp.taskPaths[t].outputFile
               /\ mp'.currentFiles[t] = mp.mergeTasks[t].outputFile]_vars

\* a phase after the first runs several tasks, the last one on a short group
C27_Witness ==
  /\ mp.pc = "merging" /\ mp.phaseNumber >= 2
  /\ Len(mp.taskPaths) >= 2
  /\ Len(mp.taskPaths[Len(mp.taskPaths)].batch) < chunksPerMerge

\* ------------------------------------------------------------------ C28
\* the name in mp.unlinked of the file at path p
NameOfPath(p) == <<p.phase, p.index>>

\* the files of the current chunk list are all deleted in the step
CurrentInputsDeleted ==
  \A i \in 1..Len(mp.currentPaths) : NameOfPath(mp.currentPaths[i]) \in mp'.unlinked

\* C28: the reducer deletes files only when every merge task of the phase has
\* completed successfully, and then the inputs of that phase, or when the final
\* merge has returned, and then its inputs; the inputs of a phase >= 2 and of
\* the final merge are then all deleted; with keepSortedFiles the sorted
\* chunks, the inputs of phase 1, are never deleted.
C28_DeletionOrder ==
  [][/\ mp'.unlinked # mp.unlinked =>
          \/ /\ mp.pc = "merging" /\ mp'.pc = "loop"
             /\ mp.failedTask = 0
             /\ \A t \in 1..Len(mp.mergeTasks) :
                  mp.mergeTasks[t].completed /\ t \notin mp.activeWorkers
             /\ mp'.unlinked \ mp.unlinked
                  \subseteq {NameOfPath(mp.currentPaths[i]) : i \in 1..Len(mp.currentPaths)}
          \/ /\ mp.pc = "final" /\ mp'.pc = "done" /\ fm.pc = "done"
             /\ mp'.unlinked \ mp.unlinked
                  \subseteq {NameOfPath(mp.currentPaths[i]) : i \in 1..Len(mp.currentPaths)}
     /\ (mp.pc = "merging" /\ mp'.pc = "loop" /\ mp.phaseNumber >= 2) =>
          CurrentInputsDeleted
     /\ (mp.pc = "final" /\ mp'.pc = "done") => CurrentInputsDeleted
     /\ mp.keepSortedFiles =>
          \A i \in 1..Len(mp.sortedFiles) :
            NameOfPath(SortedChunkPath(i - 1)) \notin mp'.unlinked]_vars

\* the inputs of a second phase are deleted, the sorted chunks are kept
C28_Witness ==
  /\ mp.phaseNumber >= 3 /\ mp.keepSortedFiles
  /\ \A i \in 1..NumBatches(mp.sortedFiles) : <<1, i - 1>> \in mp.unlinked
  /\ \A i \in 1..Len(mp.sortedFiles) : <<0, i - 1>> \notin mp.unlinked

\* ------------------------------------------------------------------ C25
\* the lines a reader has not yet handed to the merge loop, the head first
WorkerRemaining(r) == r.lineQueue \o r.rest
FinalRemaining(r) == (IF r.currentLine # <<>> THEN <<r.currentLine>> ELSE <<>>) \o r.rest

\* rem[i] are the remaining lines of reader i
HeadKeys(rem) == {LineKey(rem[i][1]) : i \in {j \in DOMAIN rem : rem[j] # <<>>}}
MinimalKey(rem) ==
  CHOOSE k \in HeadKeys(rem) : \A h \in HeadKeys(rem) : FenRank(k) <= FenRank(h)
HoldsMinimalKey(rem) ==
  {i \in DOMAIN rem : rem[i] # <<>> /\ LineKey(rem[i][1]) = MinimalKey(rem)}

\* the readers holding the minimal key lose their head line, the others nothing
TieHandled(rem, after) ==
  \A i \in DOMAIN rem :
    after[i] = IF i \in HoldsMinimalKey(rem) THEN Tail(rem[i]) ELSE rem[i]

\* some reader still holds a line of key k
KeyLeft(rem, k) ==
  \E i \in DOMAIN rem : \E j \in 1..Len(rem[i]) : LineKey(rem[i][j]) = k

\* what the merge worker and the final merge read from the head lines of the
\* readers in S
WorkerHeadStats(rem, S, isFirstPhase) ==
  LET order == Ascending(S)
  IN SumStats([n \in 1..Len(order) |->
       LineStats(rem[order[n]][1],
                 ParsePosition(rem[order[n]][1], isFirstPhase), isFirstPhase)])
FinalHeadStats(rem, S) ==
  LET order == Ascending(S)
  IN SumStats([n \in 1..Len(order) |-> FinalLineStats(Split(rem[order[n]][1], Tab))])

WorkerTies ==
  (mw.pc = "loop" /\ mw'.pc = "loop") =>
    LET rem == [i \in DOMAIN mw.readers |-> WorkerRemaining(mw.readers[i])]
        after == [i \in DOMAIN mw'.readers |-> WorkerRemaining(mw'.readers[i])]
        k == MinimalKey(rem)
        continues == mw.currentFen # NULL /\ mw.currentFen.hash = <<Fen(k)>>
    IN /\ TieHandled(rem, after)
       /\ mw'.currentFen.hash = <<Fen(k)>>
       /\ mw'.currentStats =
            AddStats(IF continues THEN mw.currentStats ELSE ZeroStats,
                     WorkerHeadStats(rem, HoldsMinimalKey(rem), mw.isFirstPhase))
       /\ continues => mw'.out = mw.out
       /\ mw'.out # mw.out => ~KeyLeft(rem, LineKey(mw.currentFen.hash))

FinalTies ==
  (fm.pc = "loop" /\ fm'.pc = "loop") =>
    LET rem == [i \in DOMAIN fm.readers |-> FinalRemaining(fm.readers[i])]
        after == [i \in DOMAIN fm'.readers |-> FinalRemaining(fm'.readers[i])]
        k == MinimalKey(rem)
        continues == fm.currentFen = <<Fen(k)>>
    IN /\ TieHandled(rem, after)
       /\ fm'.currentFen = <<Fen(k)>>
       /\ fm'.currentStats =
            AddStats(IF continues THEN fm.currentStats ELSE ZeroStats,
                     FinalHeadStats(rem, HoldsMinimalKey(rem)))
       /\ continues => fm'.partitions = fm.partitions
       /\ fm'.partitions # fm.partitions => ~KeyLeft(rem, LineKey(fm.currentFen))

\* C25: in every iteration of the merge loop of a merge task and of the final
\* merge, every reader whose head line has the minimal key k loses exactly that
\* line, which is added to the aggregate of k, and no other reader loses a line;
\* a key is flushed only when no reader holds a line of it any more, so that
\* consecutive lines of k in one reader go to the same aggregate.
C25_TieHandling == [][WorkerTies /\ FinalTies]_vars

\* the task of the worker has put two lines into one aggregate, and the first
\* iteration of the final merge has advanced two readers holding the same key
C25_Witness ==
  /\ mw.pc = "done" /\ \E j \in 1..Len(mw.out) : mw.out[j][5].n >= 2
  /\ fm.pc = "loop" /\ Len(fm.readers) = 2
  /\ fm.totalLinesProcessed = 2 /\ fm.positionsWritten = 0

\* ------------------------------------------------------------------ C31
\* the batches dispatched to worker i that it has neither answered nor
\* crashed with
Unanswered(e, i) ==
  {d \in 1..Len(e.dispatched) :
     /\ e.dispatched[d].worker = i
     /\ e.dispatched[d].batch \notin (BatchesOf(e.written) \cup BatchesOf(e.crashed))}

BusyWorkers(e) == {i \in 1..numWorkers : ~e.workerStates[i]}

Queued(m) == {m.queue[q] : q \in 1..Len(m.queue)}
TaskStatus(m, t) ==
  IF t \in m.activeWorkers THEN "running"
  ELSE IF t \in Queued(m) THEN "queued"
  ELSE IF m.mergeTasks[t].completed THEN "resolved"
  ELSE IF m.failedTask = t THEN "rejected"
  ELSE "dropped"
Settled(m, t) == TaskStatus(m, t) \in {"resolved", "rejected"}
PoolWorks(m) == m.pc \in {"merging", "aborting"}

PoolState ==
  PoolWorks(mp) =>
    /\ Cardinality(mp.activeWorkers) <= maxWorkers
    /\ mp.queue # <<>> => Cardinality(mp.activeWorkers) = maxWorkers
    /\ Cardinality(Queued(mp)) = Len(mp.queue)
    /\ \A q \in 1..(Len(mp.queue) - 1) : mp.queue[q] < mp.queue[q + 1]
    /\ \A t \in 1..Len(mp.mergeTasks) :
         /\ TaskStatus(mp, t) # "dropped"
         /\ t \in mp.activeWorkers \cup Queued(mp) =>
              (~mp.mergeTasks[t].completed /\ mp.failedTask # t)
         /\ \A q \in Queued(mp) : TaskStatus(mp, t) # "queued" => t < q

PoolStep ==
  (PoolWorks(mp) /\ PoolWorks(mp')) =>
    LET tasks == 1..Len(mp.mergeTasks)
        started == {t \in tasks : TaskStatus(mp, t) = "queued"
                                   /\ TaskStatus(mp', t) = "running"}
        settled == {t \in tasks : ~Settled(mp, t) /\ Settled(mp', t)}
    IN /\ Len(mp'.mergeTasks) = Len(mp.mergeTasks)
       /\ \A t \in tasks :
            \/ TaskStatus(mp', t) = TaskStatus(mp, t)
            \/ t \in started
            \/ t \in settled /\ TaskStatus(mp, t) = "running"
       /\ Cardinality(settled) <= 1
       /\ started = IF settled # {} /\ mp.queue # <<>> THEN {Head(mp.queue)} ELSE {}
       /\ \A t \in settled :
            TaskStatus(mp', t) = "resolved" =>
              mp'.mergeTasks[t].outputFile =
                KWayMergeToSingleFile(mp.mergeTasks[t].batch, mp.mergeTasks[t].isFirstPhase)

CountIn(seq, x) == Cardinality({n \in 1..Len(seq) : seq[n] = x})
SameRecords(a, b) ==
  /\ Len(a) = Len(b)
  /\ \A n \in 1..Len(a) : CountIn(a, a[n]) = CountIn(b, a[n])

\* the lines of the sorted file of chunk k that are on disk
SortedOnDisk(a, k) ==
  IF a.jobs[k].sortedExists THEN SubSeq(a.jobs[k].sortedFile, 1, a.flushed[k]) ELSE <<>>

\* C33: every chunk is handed to processSingleChunk at most once, and once
\* when processAllChunks has returned; the chunk file is deleted only in the
\* 'finish' handler, when the whole sorted file is on disk; so at every moment,
\* also when the process is killed, the records of a chunk are all in its
\* unsorted file or all in its sorted file.
C33_SortedBeforeDeleted ==
  /\ [](\A k \in DOMAIN sa.jobs :
          /\ sa.calls[k] <= 1
          /\ sa.pc = "done" => (sa.calls[k] = 1 /\ sa.jobs[k].pc = "resolved")
          /\ \/ sa.jobs[k].chunkExists
             \/ SameRecords(SortedOnDisk(sa, k), NonBlank(sa.jobs[k].chunkFile)))
  /\ [][\A k \in DOMAIN sa.jobs :
          (sa.jobs[k].chunkExists /\ ~sa'.jobs[k].chunkExists) =>
            /\ sa.jobs[k].pc = "writing"
            /\ sa.flushed[k] = Len(sa.jobs[k].sortedFile)
            /\ sa'.jobs[k].pc = "resolved"]_vars

\* the process is killed when one chunk has been sorted and deleted and the
\* sorted file of another is on disk in part
C33_Witness ==
  /\ sa.pc = "crashed"
  /\ \E k \in DOMAIN sa.jobs :
       ~sa.jobs[k].chunkExists /\ Len(SortedOnDisk(sa, k)) >= 2
  /\ \E k \in DOMAIN sa.jobs :
       /\ sa.jobs[k].chunkExists /\ sa.jobs[k].pc = "writing"
       /\ sa.flushed[k] >= 1 /\ sa.flushed[k] < Len(sa.jobs[k].sortedFile)

\* ------------------------------------------------------------------ C34
\* the game is replayed to its end: it has a result and an ID, chess.js loads
\* its movetext, and every move is legal in the position of the replay
ReplaysSuccessfully(gameText) ==
  /\ gameText.result \in Results /\ gameText.gameId # ""
  /\ ~LoadPgnThrows(gameText) /\ gameText.illegalAt = 0

\* the position of the replay after i plies as the records name it: placement,
\* side to move, castling and en passant fields, then "0" and "1"
RecordFenAfter(i) == <<ReplayFen(i)[1], ReplayFen(i)[2], ReplayFen(i)[3], ReplayFen(i)[4], 0, 1>>

\* C34: a game that replays successfully with n plies yields exactly n + 1
\* records: the normalized position before each of the n moves in move order,
\* starting with the initial position, then the normalized final position; all
\* records carry the game's result and the game's ID.
C34_OneRecordPerPlyPlusFinal ==
  \A g \in DOMAIN fw.emitted :
    ReplaysSuccessfully(fw.games[g]) =>
      /\ Len(fw.emitted[g]) = fw.games[g].plies + 1
      /\ \A j \in 1..Len(fw.emitted[g]) :
           /\ fw.emitted[g][j].fen = RecordFenAfter(j - 1)
           /\ fw.emitted[g][j].result = fw.games[g].result
           /\ fw.emitted[g][j].gameId = fw.games[g].gameId

\* a game of MaxPlies moves has been replayed to its end after another game,
\* and the batch is answered
C34_Witness ==
  /\ fw.pc = "posted"
  /\ \E g \in DOMAIN fw.emitted :
       /\ g > 1
       /\ ReplaysSuccessfully(fw.games[g])
       /\ fw.games[g].plies >= 2
       /\ Len(fw.emitted[g]) >= 3
       /\ fw.emitted[g][1].fen[1] = 0
       /\ fw.emitted[g][3].fen[2] = "w"

\* ------------------------------------------------------------------ C35
\* the rows of a published file: its lines after the first
RowsOf(file) == IF file = <<>> THEN <<>> ELSE Tail(file)

\* the rows are in non-increasing order of their occurrence field
NonIncreasing(rows) ==
  \A i \in 1..(Len(rows) - 1) : FieldNum(rows[i], 2) >= FieldNum(rows[i + 1], 2)

\* the places of a row in a file
PlacesOf(row, rows) == {i \in DOMAIN rows : rows[i] = row}

\* C35: fens-onlyrecurrent.tsv is the header followed by the rows of the 10+
\* bucket, each row exactly once, in non-increasing order of occurrence; rows
\* of equal occurrence keep the ascending FEN order they had in the bucket.
C35_RecurrentBucketSorted ==
  assembly.pc # "partitioned" =>
    LET bucket == assembly.partitions[TenPlus]
        rows == RowsOf(assembly.onlyrecurrent)
    IN /\ assembly.onlyrecurrent # <<>> /\ assembly.onlyrecurrent[1] = Header
       /\ Len(rows) = Len(bucket)
       /\ \A i \in DOMAIN bucket : Cardinality(PlacesOf(bucket[i], rows)) = 1
       /\ NonIncreasing(rows)
       /\ \A i, j \in DOMAIN bucket :
            (i < j /\ FieldNum(bucket[i], 2) = FieldNum(bucket[j], 2)) =>
              \A p \in PlacesOf(bucket[i], rows) : \A q \in PlacesOf(bucket[j], rows) :
                /\ p < q
                /\ Rank(Split(rows[p], Tab)[1]) < Rank(Split(rows[q], Tab)[1])

\* the bucket of three rows had its largest occurrence last and two rows of
\* equal occurrence before it
C35_Witness ==
  /\ assembly.pc = "sorted"
  /\ Len(assembly.partitions[TenPlus]) = 3
  /\ FieldNum(assembly.partitions[TenPlus][1], 2) = FieldNum(assembly.partitions[TenPlus][2], 2)
  /\ FieldNum(assembly.partitions[TenPlus][3], 2) > FieldNum(assembly.partitions[TenPlus][1], 2)
  /\ assembly.onlyrecurrent[2] = assembly.partitions[TenPlus][3]

\* ------------------------------------------------------------------ C36
\* a is an initial part of b
IsPrefixOf(a, b) == Len(a) <= Len(b) /\ SubSeq(b, 1, Len(a)) = a

\* the rows of a file whose occurrence belongs to bucket b, in file order
RowsOfBucket(file, b) ==
  SelectSeq(RowsOf(file), LAMBDA row : PartitionKey(FieldNum(row, 2)) = b)

\* C36: the rows of fens-withoutone.tsv and of fens-all.tsv are in
\* non-increasing order of occurrence over the whole file: the sorted 10+ rows,
\* then the buckets 9 down to 2, then bucket 1 in fens-all; the rows of
\* fens-onlyrecurrent.tsv are a prefix of the rows of fens-withoutone.tsv, which
\* are a prefix of the rows of fens-all.tsv.
C36_GlobalOrder ==
  /\ assembly.pc \in {"withoutone", "done"} =>
       /\ NonIncreasing(RowsOf(assembly.withoutone))
       /\ IsPrefixOf(RowsOf(assembly.onlyrecurrent), RowsOf(assembly.withoutone))
       /\ RowsOfBucket(assembly.withoutone, TenPlus) = RowsOf(assembly.onlyrecurrent)
       /\ \A b \in 2..(TenPlus - 1) :
            RowsOfBucket(assembly.withoutone, b) = assembly.partitions[b]
       /\ RowsOfBucket(assembly.withoutone, 1) = <<>>
  /\ assembly.pc = "done" =>
       /\ NonIncreasing(RowsOf(assembly.all))
       /\ IsPrefixOf(RowsOf(assembly.withoutone), RowsOf(assembly.all))
       /\ RowsOfBucket(assembly.all, TenPlus) = RowsOf(assembly.onlyrecurrent)
       /\ \A b \in 1..(TenPlus - 1) :
            RowsOfBucket(assembly.all, b) = assembly.partitions[b]

\* the three files are written with two rows in the 10+ bucket, the larger
\* occurrence second, and a row in a bucket between 2 and 9
C36_Witness ==
  /\ assembly.pc = "done"
  /\ Len(assembly.partitions[TenPlus]) = 2
  /\ FieldNum(assembly.partitions[TenPlus][1], 2) < FieldNum(assembly.partitions[TenPlus][2], 2)
  /\ \E b \in 2..(TenPlus - 1) : assembly.partitions[b] # <<>>

\* ------------------------------------------------------------------ C37
\* the chunks the extraction of this run writes, and their sorted chunks
ChunksOfThisRun(r) == WritePositions(InitChunk(NewChunkWriter), r.input).chunks
SortedChunksOfThisRun(r) ==
  [n \in 1..Len(ChunksOfThisRun(r)) |-> processSingleChunk(ChunksOfThisRun(r)[n])]

\* C37: in a run without --resume the sorted chunks passed to the merge are
\* exactly those made by sorting the chunks this run's extraction wrote, also
\* when the temp directory holds sorted chunks of an earlier failed run; no
\* position of an earlier run is counted.
C37_OnlyThisRunsChunks ==
  (~run.resumeMode /\ run.pc \in {"merge", "sort10", "cleanup", "done"}) =>
    /\ run.mergeInput = SortedChunksOfThisRun(run)
    /\ Len(Flatten(run.mergeInput)) = Len(run.input)

\* ------------------------------------------------------------------ C38
\* the lines of a text: the parts between the newlines, the part after the last
\* newline included
RECURSIVE LinesOfText(_)
LinesOfText(text) ==
  LET newlineIndex == IndexOf(text, Newline, 1)
  IN IF newlineIndex = 0 THEN <<text>>
     ELSE <<SubSeq(text, 1, newlineIndex - 1)>>
            \o LinesOfText(SubSeq(text, newlineIndex + 1, Len(text)))

\* the non-blank lines of a file in file order, each without the white space
\* around it
NonBlankLinesOf(file) ==
  LET lines == LinesOfText(file)
  IN SelectSeq([i \in 1..Len(lines) |-> TrimText(lines[i])], LAMBDA line : line # <<>>)

\* the reader of the given kind delivers the non-blank lines of its file in
\* file order, and is finished, and its loop left, only when all are delivered
DeliversLines(kind) ==
  lr.kind = kind =>
    /\ IsPrefixOf(lr.delivered, NonBlankLinesOf(lr.file))
    /\ (lr.finished \/ lr.pc = "done") => lr.delivered = NonBlankLinesOf(lr.file)

====
